---- MODULE Spec2Model ----
(***************************************************************************)
(* Model of the DXF diff processing suite.                                 *)
(*                                                                         *)
(*   Spec     the pair pipeline orchestrator, core/processor.py:           *)
(*            DXFProcessor.process_file_pairs and the stages it drives     *)
(*   SpecCsv  the label diff classifier, scripts/diff_label_processor.py:  *)
(*            process_csv_file applied to bounded comparison tables, and   *)
(*            the writing of the label files by main                       *)
(*   SpecColor   the rule resolver of scripts/dxf_processor.py:            *)
(*            _get_text_color_for_entity applied to bounded rule tables    *)
(*   SpecEntity  _process_entity applied to one entity of each shape       *)
(*   SpecDxf  process_dxf_file applied to bounded documents                *)
(*   SpecHandover  the label lists on their way from the classifier,       *)
(*            through the label files, into the rule tables that           *)
(*            parse_text_color_args loads for the two annotation runs      *)
(*   SpecUi   one browser session of ui/components.py: the session state   *)
(*            and the script runs that Streamlit makes                     *)
(*                                                                         *)
(* Texts that the code inspects character by character (CSV fields) are    *)
(* sequences of one-character strings; names that the code only compares   *)
(* or uses as keys (pair names, sheet names) are strings.  A path is the   *)
(* sequence of its components, a file name the sequence of its dot         *)
(* separated parts; Python's None is NoneText for a string and the empty   *)
(* sequence for a path, a name or a message.  Lengths are integers: sizes  *)
(* of text in tenths of a millimetre, line widths in thousandths.          *)
(***************************************************************************)
EXTENDS Integers, Sequences, FiniteSets, TLC

VARIABLES
    \* ---- process_file_pairs (core/processor.py) ----
    file_pairs,         \* argument: the registered FilePair list
    progress_callback,  \* argument: "None" or "given" (a callback may raise)
    pc,                 \* position inside process_file_pairs
    excel_sheets,       \* sheet names of the comparison workbook
    csv_files,          \* keys of the csv_files dict, in insertion order
    file_pairs_dict,    \* pair_name -> pair data
    idx,                \* position of the for loop in csv_files.keys()
    output_dir,         \* local of the loop body
    outputs,            \* local of the loop body: <<file_a_output, file_b_output>>
    exc,                \* the exception in flight (NoExc when none)
    results,            \* the results dict: pair_name -> ProcessingResult
    returned,           \* the ProcessingResults handed to the caller
    log,                \* history: the external calls made so far, in order
    \* ---- diff_label_processor.py ----
    csv_table,          \* the CSV file: a sequence of rows, header first
    csv_pc,             \* "ready", "classified", "written" or "exit1"
    deleted_labels, added_labels, modified_a_labels, modified_b_labels,
    label_files,        \* the label files written by main(), in writing order
    \* ---- dxf_processor.py: the fields of DXFPostProcessor ----
    line_width_mm,      \* in thousandths of a millimetre
    line_color,         \* palette index
    text_color_mapping, \* -tc rules: sequence of [color, strings], dict order
    char_color_mapping, \* -cc rules, likewise
    min_font_size_mm,   \* in tenths of a millimetre
    \* ---- _get_text_color_for_entity ----
    text_content,       \* argument
    text_color,         \* the palette index returned
    color_pc,           \* "ready" or "resolved"
    \* ---- _process_entity ----
    entity_before,      \* the argument as it was passed
    entity,             \* the argument, mutated in place
    entity_pc,          \* "ready", "done" or "raised"
    \* ---- process_dxf_file ----
    doc,                \* the document read by ezdxf.readfile
    dxf_pc,             \* position inside process_dxf_file
    saved,              \* the documents written by doc.saveas, in order
    dxf_result,         \* the value returned: "None" until it returns
    \* ---- ui/components.py, core/models.py: one browser session ----
    session_state,      \* st.session_state: key -> value, for the keys set
    file_pairs_ready,   \* the number of pairs with both files uploaded
    ui_pc,              \* "idle" between script runs, "script", "pipeline"
    pipeline_runs       \* history: pipeline calls since the last start click

pvars == <<file_pairs, progress_callback, pc, excel_sheets, csv_files,
           file_pairs_dict, idx, output_dir, outputs, exc, results, returned, log>>
cvars == <<csv_table, csv_pc, deleted_labels, added_labels,
           modified_a_labels, modified_b_labels, label_files>>
avars == <<line_width_mm, line_color, text_color_mapping, char_color_mapping,
           min_font_size_mm, text_content, text_color, color_pc,
           entity_before, entity, entity_pc, doc, dxf_pc, saved, dxf_result>>
uvars == <<session_state, file_pairs_ready, ui_pc, pipeline_runs>>
vars  == <<pvars, cvars, avars, uvars>>

NoneText == "None"

\* ------------------------------------------------------------------------
\* Bounds and input universes
\* ------------------------------------------------------------------------
MaxPairs == 2
MaxRows == 2
MaxRules == 2
MaxEntities == 2
PairNames == {"P1", "P2"}
StderrTexts == {"err1"}

\* FilePair(file_a, file_b, pair_name): the uploads are known by their names
FilePair ==
    {[file_a |-> <<"a", "dxf">>, file_b |-> <<"b", "dxf">>, pair_name |-> "P1"],
     [file_a |-> <<"b", "dxf">>, file_b |-> <<"b", "dxf">>, pair_name |-> "P2"]}

SeqsUpTo(S, n) == UNION {[1..k -> S] : k \in 0..n}

Range(s) == {s[i] : i \in DOMAIN s}

IsInjective(s) == \A i, j \in DOMAIN s : s[i] = s[j] => i = j

\* ------------------------------------------------------------------------
\* core/exceptions.py, core/models.py
\* ------------------------------------------------------------------------
NoExc == [type |-> NoneText, message |-> <<>>, pair_name |-> NoneText,
          file_type |-> NoneText, stderr |-> NoneText]

\* an exception raised by the progress callback (any Exception)
CallbackError == [NoExc EXCEPT !.type = "CallbackError", !.message = <<"callback">>]

\* faulty variant: the failure of the comparison is passed on without being wrapped
ComparisonError_NotWrapped(message) ==
    [NoExc EXCEPT !.type = "Exception", !.message = message]

ComparisonError(message) ==
    [NoExc EXCEPT !.type = "ComparisonError", !.message = message]

ExcelConversionError(message) ==
    [NoExc EXCEPT !.type = "ExcelConversionError", !.message = message]

DiffProcessorError(message, pair_name, stderr) ==
    [NoExc EXCEPT !.type = "DiffProcessorError", !.message = message,
                  !.pair_name = pair_name, !.stderr = stderr]

DXFProcessorError(message, pair_name, file_type, stderr) ==
    [NoExc EXCEPT !.type = "DXFProcessorError", !.message = message,
                  !.pair_name = pair_name, !.file_type = file_type,
                  !.stderr = stderr]

\* file_pairs_dict[pair_name] for a name that is no key
KeyError(key) == [NoExc EXCEPT !.type = "KeyError", !.message = <<key>>]

NoDetails == [k \in {} |-> NoneText]

ProcessingResult(name, success, out_a, out_b, orig_a, orig_b, dir, message, details) ==
    [pair_name |-> name, success |-> success,
     file_a_output |-> out_a, file_b_output |-> out_b,
     original_a_name |-> orig_a, original_b_name |-> orig_b,
     output_dir |-> dir,
     error_message |-> message, error_details |-> details]

NoResults == [k \in {} |-> NoExc]

successful_pairs(res) == {k \in DOMAIN res : res[k].success}

failed_pairs(res) == {k \in DOMAIN res : ~res[k].success}

success_count(res) == Cardinality(successful_pairs(res))

total_count(res) == Cardinality(DOMAIN res)

\* results[key] = value
DictSet(d, key, value) ==
    [k \in DOMAIN d \cup {key} |-> IF k = key THEN value ELSE d[k]]

\* ------------------------------------------------------------------------
\* external calls: subprocess.run, the progress callback
\* ------------------------------------------------------------------------
\* subprocess.run(cmd, timeout=...) either completes with a return code and
\* the captured stderr, or raises TimeoutExpired
CompletedOk == [timeout |-> FALSE, returncode |-> 0, stderr |-> ""]
SubprocessOutcomes ==
    {CompletedOk}
    \cup {[timeout |-> FALSE, returncode |-> 1, stderr |-> s] : s \in StderrTexts}
    \cup {[timeout |-> TRUE, returncode |-> 0, stderr |-> NoneText]}

Event(ev, name, outcome, stderr) ==
    [ev |-> ev, name |-> name, outcome |-> outcome, stderr |-> stderr]

OutcomeName(o) ==
    IF o.timeout THEN "timeout" ELSE IF o.returncode # 0 THEN "nonzero" ELSE "ok"

working_dir == <<"work">>

\* Path(name).stem: the name without its last suffix
Stem(name) == IF Len(name) > 1 THEN SubSeq(name, 1, Len(name) - 1) ELSE name

\* save_uploadedfile(file): the temporary copy of an upload
save_uploadedfile(file) == <<"tmp">> \o file

\* ------------------------------------------------------------------------
\* The components that take no part in a specification stay as they are here
\* ------------------------------------------------------------------------
\* st.session_state of a session in which no key has been set
EmptySession == [k \in {} |-> FALSE]

UiIdle ==
    /\ session_state = EmptySession
    /\ file_pairs_ready = 0
    /\ ui_pc = "off"
    /\ pipeline_runs = 0

ResolverIdle ==
    /\ text_content = <<>>
    /\ text_color = 0
    /\ color_pc = "idle"

EntityIdle ==
    /\ entity_before = <<>>
    /\ entity = <<>>
    /\ entity_pc = "idle"

DocumentIdle ==
    /\ doc = <<>>
    /\ dxf_pc = "idle"
    /\ saved = <<>>
    /\ dxf_result = NoneText

AnnotatorIdle ==
    /\ line_width_mm = 250
    /\ line_color = 7
    /\ text_color_mapping = <<>>
    /\ char_color_mapping = <<>>
    /\ min_font_size_mm = 25
    /\ ResolverIdle
    /\ EntityIdle
    /\ DocumentIdle

PipelineIdle ==
    /\ file_pairs = <<>>
    /\ progress_callback = "None"
    /\ pc = "idle"
    /\ excel_sheets = <<>>
    /\ csv_files = <<>>
    /\ file_pairs_dict = NoResults
    /\ idx = 0
    /\ output_dir = <<>>
    /\ outputs = <<>>
    /\ exc = NoExc
    /\ results = NoResults
    /\ returned = NoResults
    /\ log = <<>>

CsvIdle ==
    /\ csv_table = <<>>
    /\ csv_pc = "idle"
    /\ deleted_labels = <<>>
    /\ added_labels = <<>>
    /\ modified_a_labels = <<>>
    /\ modified_b_labels = <<>>
    /\ label_files = <<>>

\* ------------------------------------------------------------------------
\* DXFProcessor.process_file_pairs
\* ------------------------------------------------------------------------
Init ==
    /\ UiIdle
    /\ file_pairs \in SeqsUpTo(FilePair, MaxPairs)
    /\ progress_callback \in {"None", "given"}
    /\ pc = "progress1"
    /\ excel_sheets = <<>>
    /\ csv_files = <<>>
    /\ file_pairs_dict = NoResults
    /\ idx = 0
    /\ output_dir = <<>>
    /\ outputs = <<>>
    /\ exc = NoExc
    /\ results = NoResults
    /\ returned = NoResults
    /\ log = <<>>
    /\ csv_table = <<>>
    /\ csv_pc = "idle"
    /\ deleted_labels = <<>>
    /\ added_labels = <<>>
    /\ modified_a_labels = <<>>
    /\ modified_b_labels = <<>>
    /\ label_files = <<>>
    /\ AnnotatorIdle

\* if progress_callback: progress_callback(...)   at position `from`;
\* an exception of the callback takes control to `handler`
Progress(from, to, handler, name) ==
    /\ pc = from
    /\ \/ /\ progress_callback = "None"
          /\ pc' = to
          /\ UNCHANGED <<exc, log>>
       \/ /\ progress_callback # "None"
          /\ pc' = to
          /\ log' = Append(log, Event("callback", name, "ok", NoneText))
          /\ UNCHANGED exc
       \/ /\ progress_callback # "None"
          /\ pc' = handler
          /\ exc' = CallbackError
          /\ log' = Append(log, Event("callback", name, "raised", NoneText))
    /\ UNCHANGED <<file_pairs, progress_callback, excel_sheets, csv_files,
                   file_pairs_dict, idx, output_dir, outputs, results, returned>>
    /\ UNCHANGED <<cvars, avars, uvars>>

pair_name == IF idx \in DOMAIN csv_files THEN csv_files[idx] ELSE NoneText

Progress1 == Progress("progress1", "compare", "except_outer", NoneText)

Progress2 == Progress("progress2", "convert", "except_outer", NoneText)

Progress3 == Progress("progress3", "diff", "except_pair", pair_name)

Progress4 == Progress("progress4", "dxf_a", "except_pair", pair_name)

ProgressDone == Progress("progress_done", "return", "except_outer", NoneText)

\* utils.compare_labels.compare_labels_multi, by its contract: a workbook with
\* one sheet per pair, in the order of the pairs, and the one sheet 'Summary'
\* before or after them.
\* A workbook's sheet names are distinct, and a sheet is named after its pair
\* or, where the workbook cannot carry that name, by an altered name; when no
\* such naming exists, or for any other reason, the call raises.
AlteredName(name) ==
    CASE name = "P1" -> "P1~" [] name = "P2" -> "P2~" [] OTHER -> name

SheetUniverse == PairNames \cup {AlteredName(n) : n \in PairNames} \cup {"Summary"}

\* sheet != 'Summary'
NotSummary(sheet) == sheet # "Summary"

Workbooks(pairs) ==
    {w \in [1..(Len(pairs) + 1) -> SheetUniverse] :
        /\ IsInjective(w)
        /\ w[1] = "Summary" \/ w[Len(w)] = "Summary"
        /\ \A i \in DOMAIN pairs :
              SelectSeq(w, NotSummary)[i]
                  \in {pairs[i].pair_name, AlteredName(pairs[i].pair_name)}}

compare_labels_multi(pairs) ==
    {[raised |-> TRUE, sheet_names |-> <<>>]}
    \cup {[raised |-> FALSE, sheet_names |-> w] : w \in Workbooks(pairs)}

\* excel_data = self._compare_labels(file_pairs)
CompareLabels ==
    /\ pc = "compare"
    /\ \E r \in compare_labels_multi(file_pairs) :
          IF r.raised
          THEN /\ exc' = ComparisonError(<<"compare_labels", "failed">>)
               /\ pc' = "except_outer"
               /\ log' = Append(log, Event("compare", NoneText, "raised", NoneText))
               /\ UNCHANGED excel_sheets
          ELSE /\ excel_sheets' = r.sheet_names
               /\ pc' = "progress2"
               /\ log' = Append(log, Event("compare", NoneText, "ok", NoneText))
               /\ UNCHANGED exc
    /\ UNCHANGED <<file_pairs, progress_callback, csv_files, file_pairs_dict,
                   idx, output_dir, outputs, results, returned>>
    /\ UNCHANGED <<cvars, avars, uvars>>

\* faulty variant: no sheet is filtered out
SheetsToConvert_All(sheet_names) == sheet_names

\* sheet_names = [sheet for sheet in excel_file.sheet_names if sheet != 'Summary']
\* csv_files[sheet_name] = csv_path, for each of them in order
SheetsToConvert(sheet_names) == SelectSeq(sheet_names, NotSummary)

\* csv_files = self._convert_excel_to_csv(excel_data, working_dir)
ConvertExcelToCsv ==
    /\ pc = "convert"
    /\ \/ /\ csv_files' = SheetsToConvert(excel_sheets)
          /\ pc' = "mkdict"
          /\ log' = Append(log, Event("convert", NoneText, "ok", NoneText))
          /\ UNCHANGED exc
       \/ \* pandas or the file system raises
          /\ exc' = ExcelConversionError(<<"excel_conversion", "failed">>)
          /\ pc' = "except_outer"
          /\ log' = Append(log, Event("convert", NoneText, "raised", NoneText))
          /\ UNCHANGED csv_files
    /\ UNCHANGED <<file_pairs, progress_callback, excel_sheets, file_pairs_dict,
                   idx, output_dir, outputs, results, returned>>
    /\ UNCHANGED <<cvars, avars, uvars>>

PairData(fp) ==
    [file_a |-> fp.file_a, file_b |-> fp.file_b,
     temp_file_a |-> save_uploadedfile(fp.file_a),
     temp_file_b |-> save_uploadedfile(fp.file_b),
     file_a_name |-> Stem(fp.file_a), file_b_name |-> Stem(fp.file_b)]

\* for file_a, file_b, pair_name in file_pairs: file_pairs_dict[pair_name] = {...}
\* (a later pair of the same name replaces the earlier one)
RECURSIVE create_file_pairs_dict(_, _)
create_file_pairs_dict(pairs, d) ==
    IF pairs = <<>> THEN d
    ELSE create_file_pairs_dict(Tail(pairs),
             DictSet(d, Head(pairs).pair_name, PairData(Head(pairs))))

\* file_pairs_dict = self._create_file_pairs_dict(file_pairs)
CreateFilePairsDict ==
    /\ pc = "mkdict"
    /\ file_pairs_dict' = create_file_pairs_dict(file_pairs, NoResults)
    /\ idx' = 0
    /\ pc' = "for"
    /\ UNCHANGED <<file_pairs, progress_callback, excel_sheets, csv_files,
                   output_dir, outputs, exc, results, returned, log>>
    /\ UNCHANGED <<cvars, avars, uvars>>

\* for pair_name in csv_files.keys():
ForNextPair ==
    /\ pc = "for"
    /\ IF idx < Len(csv_files)
       THEN /\ idx' = idx + 1
            /\ pc' = "progress3"
       ELSE /\ pc' = "progress_done"
            /\ UNCHANGED idx
    /\ output_dir' = <<>>
    /\ outputs' = <<>>
    /\ UNCHANGED <<file_pairs, progress_callback, excel_sheets, csv_files,
                   file_pairs_dict, exc, results, returned, log>>
    /\ UNCHANGED <<cvars, avars, uvars>>

\* output_dir = self._run_diff_processor(pair_name, csv_files[pair_name], working_dir)
RunDiffProcessor ==
    /\ pc = "diff"
    /\ \E result \in SubprocessOutcomes :
          /\ log' = Append(log, Event("classify", pair_name, OutcomeName(result),
                                      result.stderr))
          /\ IF result.timeout
             THEN /\ exc' = DiffProcessorError(
                               <<pair_name, "diff_label_processor", "timeout">>,
                               pair_name, NoneText)
                  /\ pc' = "except_pair"
                  /\ UNCHANGED output_dir
             ELSE IF result.returncode # 0
             THEN /\ exc' = DiffProcessorError(
                               <<pair_name, "diff_label_processor", "failed">>,
                               pair_name, result.stderr)
                  /\ pc' = "except_pair"
                  /\ UNCHANGED output_dir
             ELSE /\ output_dir' = working_dir \o <<pair_name>>
                  /\ pc' = "progress4"
                  /\ UNCHANGED exc
    /\ UNCHANGED <<file_pairs, progress_callback, excel_sheets, csv_files,
                   file_pairs_dict, idx, outputs, results, returned>>
    /\ UNCHANGED <<cvars, avars, uvars>>

\* file_a_output = output_dir / f"{pair_data['file_a_name']}_processed.dxf"
ProcessedPath(dir, stem) == dir \o stem \o <<"_processed", "dxf">>

\* the command line of one annotation run (the arguments that carry names)
DxfCommand(temp_file, output) == <<"dxf_processor.py">> \o temp_file \o <<"-o">> \o output

\* file_type = 'A' if 'file_a_output' in str(e) else 'B'
\* str(e) of a TimeoutExpired shows the command line and the timeout
TimeoutFileType(cmd) ==
    IF \E i \in DOMAIN cmd : cmd[i] = "file_a_output" THEN "A" ELSE "B"

\* faulty variant: the return code of revision A's run is not looked at
RevisionAFailed_Ignored(result_a) == FALSE

\* if result_a.returncode != 0: raise DXFProcessorError(..., file_type='A', ...)
RevisionAFailed(result_a) == result_a.returncode # 0

\* _run_dxf_processor, first half: the run of cmd_a.  The argument
\* file_pairs_dict[pair_name] is evaluated before the call.
RunDxfProcessorA ==
    /\ pc = "dxf_a"
    /\ IF pair_name \notin DOMAIN file_pairs_dict
       THEN /\ exc' = KeyError(pair_name)
            /\ pc' = "except_pair"
            /\ UNCHANGED log
       ELSE LET pair_data == file_pairs_dict[pair_name]
                file_a_output == ProcessedPath(output_dir, pair_data.file_a_name)
                cmd_a == DxfCommand(pair_data.temp_file_a, file_a_output)
            IN \E result_a \in SubprocessOutcomes :
                  /\ log' = Append(log, Event("annotate_a", pair_name,
                                              OutcomeName(result_a), result_a.stderr))
                  /\ IF result_a.timeout
                     THEN /\ exc' = DXFProcessorError(
                                <<pair_name, "file", TimeoutFileType(cmd_a),
                                  "dxf_processor", "timeout">>,
                                pair_name, TimeoutFileType(cmd_a), NoneText)
                          /\ pc' = "except_pair"
                     ELSE IF RevisionAFailed(result_a)
                     THEN /\ exc' = DXFProcessorError(
                                <<pair_name, "file", "A", "dxf_processor", "failed">>,
                                pair_name, "A", result_a.stderr)
                          /\ pc' = "except_pair"
                     ELSE /\ pc' = "dxf_b"
                          /\ UNCHANGED exc
    /\ UNCHANGED <<file_pairs, progress_callback, excel_sheets, csv_files,
                   file_pairs_dict, idx, output_dir, outputs, results, returned>>
    /\ UNCHANGED <<cvars, avars, uvars>>

\* _run_dxf_processor, second half: the run of cmd_b, reached only when
\* result_a.returncode == 0
RunDxfProcessorB ==
    /\ pc = "dxf_b"
    /\ LET pair_data == file_pairs_dict[pair_name]
           file_a_output == ProcessedPath(output_dir, pair_data.file_a_name)
           file_b_output == ProcessedPath(output_dir, pair_data.file_b_name)
           cmd_b == DxfCommand(pair_data.temp_file_b, file_b_output)
       IN \E result_b \in SubprocessOutcomes :
             /\ log' = Append(log, Event("annotate_b", pair_name,
                                         OutcomeName(result_b), result_b.stderr))
             /\ IF result_b.timeout
                THEN /\ exc' = DXFProcessorError(
                           <<pair_name, "file", TimeoutFileType(cmd_b),
                             "dxf_processor", "timeout">>,
                           pair_name, TimeoutFileType(cmd_b), NoneText)
                     /\ pc' = "except_pair"
                     /\ UNCHANGED outputs
                ELSE IF result_b.returncode # 0
                THEN /\ exc' = DXFProcessorError(
                           <<pair_name, "file", "B", "dxf_processor", "failed">>,
                           pair_name, "B", result_b.stderr)
                     /\ pc' = "except_pair"
                     /\ UNCHANGED outputs
                ELSE /\ outputs' = <<file_a_output, file_b_output>>
                     /\ pc' = "success"
                     /\ UNCHANGED exc
    /\ UNCHANGED <<file_pairs, progress_callback, excel_sheets, csv_files,
                   file_pairs_dict, idx, output_dir, results, returned>>
    /\ UNCHANGED <<cvars, avars, uvars>>

\* results[pair_name] = ProcessingResult(pair_name=pair_name, success=True, ...)
SuccessResult ==
    ProcessingResult(pair_name, TRUE, outputs[1], outputs[2],
                     file_pairs_dict[pair_name].file_a,
                     file_pairs_dict[pair_name].file_b,
                     output_dir, <<>>, NoDetails)

RecordSuccess ==
    /\ pc = "success"
    /\ results' = DictSet(results, pair_name, SuccessResult)
    /\ log' = Append(log, Event("record", pair_name, "success", NoneText))
    /\ pc' = "for"
    /\ UNCHANGED <<file_pairs, progress_callback, excel_sheets, csv_files,
                   file_pairs_dict, idx, output_dir, outputs, exc, returned>>
    /\ UNCHANGED <<cvars, avars, uvars>>

\* faulty variant: the failure is recorded without its message
FailureResult_NoMessage(e) ==
    ProcessingResult(pair_name, FALSE, <<>>, <<>>, <<>>, <<>>, <<>>,
                     <<>>, [k \in {"exception_type"} |-> e.type])

\* results[pair_name] = ProcessingResult(pair_name=pair_name, success=False,
\*     error_message=str(e), error_details={'exception_type': type(e).__name__})
FailureResult(e) ==
    ProcessingResult(pair_name, FALSE, <<>>, <<>>, <<>>, <<>>, <<>>,
                     e.message, [k \in {"exception_type"} |-> e.type])

\* faulty variant: the pair's exception is raised again instead of being recorded
RecordFailure_Reraise ==
    /\ pc = "except_pair"
    /\ pc' = "except_outer"
    /\ UNCHANGED <<file_pairs, progress_callback, excel_sheets, csv_files,
                   file_pairs_dict, idx, output_dir, outputs, exc, results,
                   returned, log>>
    /\ UNCHANGED <<cvars, avars, uvars>>

\* except Exception as e: ...; continue
RecordFailure ==
    /\ pc = "except_pair"
    /\ results' = DictSet(results, pair_name, FailureResult(exc))
    /\ log' = Append(log, Event("record", pair_name, "failure", NoneText))
    /\ exc' = NoExc
    /\ pc' = "for"
    /\ UNCHANGED <<file_pairs, progress_callback, excel_sheets, csv_files,
                   file_pairs_dict, idx, output_dir, outputs, returned>>
    /\ UNCHANGED <<cvars, avars, uvars>>

\* return ProcessingResults(results=results, working_dir=working_dir)
Return ==
    /\ pc = "return"
    /\ returned' = results
    /\ pc' = "returned"
    /\ UNCHANGED <<file_pairs, progress_callback, excel_sheets, csv_files,
                   file_pairs_dict, idx, output_dir, outputs, exc, results, log>>
    /\ UNCHANGED <<cvars, avars, uvars>>

\* except Exception as e: if progress_callback: progress_callback(...); raise e
\* (an exception of the callback replaces e)
RaiseToCaller ==
    /\ pc = "except_outer"
    /\ \/ /\ progress_callback = "None"
          /\ UNCHANGED <<exc, log>>
       \/ /\ progress_callback # "None"
          /\ log' = Append(log, Event("callback", NoneText, "ok", NoneText))
          /\ UNCHANGED exc
       \/ /\ progress_callback # "None"
          /\ exc' = CallbackError
          /\ log' = Append(log, Event("callback", NoneText, "raised", NoneText))
    /\ pc' = "raised"
    /\ UNCHANGED <<file_pairs, progress_callback, excel_sheets, csv_files,
                   file_pairs_dict, idx, output_dir, outputs, results, returned>>
    /\ UNCHANGED <<cvars, avars, uvars>>

Next ==
    \/ Progress1
    \/ CompareLabels
    \/ Progress2
    \/ ConvertExcelToCsv
    \/ CreateFilePairsDict
    \/ ForNextPair
    \/ Progress3
    \/ RunDiffProcessor
    \/ Progress4
    \/ RunDxfProcessorA
    \/ RunDxfProcessorB
    \/ RecordSuccess
    \/ RecordFailure
    \/ ProgressDone
    \/ Return
    \/ RaiseToCaller

Spec == Init /\ [][Next]_vars

\* ------------------------------------------------------------------------
\* Properties of process_file_pairs
\* ------------------------------------------------------------------------
StageEvs == {"classify", "annotate_a", "annotate_b"}

\* the external call ev was made for `name` and ended with `outcome`
Happened(ev, name, outcome) ==
    \E i \in DOMAIN log :
        log[i].ev = ev /\ log[i].name = name /\ log[i].outcome = outcome

Ran(ev, name) == \E i \in DOMAIN log : log[i].ev = ev /\ log[i].name = name

StageFailed(name) ==
    \E i \in DOMAIN log :
        log[i].ev \in StageEvs /\ log[i].name = name /\ log[i].outcome # "ok"

AllStagesOk(name) ==
    /\ Happened("classify", name, "ok")
    /\ Happened("annotate_a", name, "ok")
    /\ Happened("annotate_b", name, "ok")

Recorded(name) == Ran("record", name)

RegisteredNames == {file_pairs[i].pair_name : i \in DOMAIN file_pairs}

CallbackRaised ==
    \E i \in DOMAIN log : log[i].ev = "callback" /\ log[i].outcome = "raised"

C2_CallbackFailureContained ==
    /\ pc = "raised" => exc.type # "CallbackError"
    /\ \A n \in DOMAIN results :
          ~results[n].success =>
              results[n].error_details["exception_type"] # "CallbackError"

\* C3: when comparison and conversion succeeded (and the callback, if any,
\* never raised), the returned results hold
\* exactly one result per registered pair: as many results as pairs, one
\* under the name of each pair and none under any other name.
C3_OneResultPerRegisteredPair ==
    (pc = "returned" /\ ~CallbackRaised) =>
        /\ total_count(returned) = Len(file_pairs)
        /\ DOMAIN returned = RegisteredNames

C5_RevisionBStillAttempted ==
    \A n \in DOMAIN results :
        (Ran("annotate_a", n) /\ ~Happened("annotate_a", n, "ok")) =>
            Ran("annotate_b", n)

\* the last external call before position i of the log that is not a call
\* of the progress callback (0 when there is none)
PrevCall(i) ==
    CHOOSE j \in 0..(i - 1) :
        /\ j = 0 \/ log[j].ev # "callback"
        /\ \A k \in (j + 1)..(i - 1) : log[k].ev = "callback"

\* C6: the stages run in the fixed order.  Comparison is the first call and
\* conversion follows its success; a classification starts only right after
\* the conversion succeeded or after the previous pair's result was recorded,
\* and never for a pair that was handled before; annotation of revision A
\* starts only right after the same pair's classification succeeded, that of
\* revision B only right after the same pair's revision A succeeded; a result
\* is recorded only for the pair whose stages ran last; and after a pair's
\* result is recorded no further stage runs for it.
C6_StageOrder ==
    \A i \in DOMAIN log :
        LET e == log[i]
            p == PrevCall(i)
        IN /\ e.ev = "compare" => p = 0
           /\ e.ev = "convert" => p # 0 /\ log[p] = Event("compare", NoneText, "ok", NoneText)
           /\ e.ev = "classify" =>
                 /\ p # 0
                 /\ \/ log[p] = Event("convert", NoneText, "ok", NoneText)
                    \/ log[p].ev = "record"
                 /\ \A j \in 1..(i - 1) :
                       log[j].ev = "callback" \/ log[j].name # e.name
           /\ e.ev = "annotate_a" =>
                 /\ p # 0
                 /\ log[p].ev = "classify" /\ log[p].name = e.name
                 /\ log[p].outcome = "ok"
           /\ e.ev = "annotate_b" =>
                 /\ p # 0
                 /\ log[p].ev = "annotate_a" /\ log[p].name = e.name
                 /\ log[p].outcome = "ok"
           /\ e.ev = "record" =>
                 /\ p # 0
                 /\ log[p].ev \in StageEvs => log[p].name = e.name
                 /\ log[p].ev \in StageEvs \cup {"convert", "record"}
                 /\ \A j \in (i + 1)..Len(log) :
                       ~(log[j].ev \in StageEvs \cup {"record"} /\ log[j].name = e.name)

\* two pairs went through all their stages one after the other
C6_Witness ==
    /\ pc = "returned"
    /\ Len(csv_files) = 2
    /\ AllStagesOk(csv_files[1])
    /\ StageFailed(csv_files[2]) /\ Ran("annotate_b", csv_files[2])

\* C7: the converted sheets are the sheets of the workbook other than
\* 'Summary', each exactly once, and nothing is classified, annotated or
\* recorded under the name 'Summary'.
C7_SummaryExcluded ==
    /\ Happened("convert", NoneText, "ok") =>
          /\ \A sheet \in Range(excel_sheets) \ {"Summary"} :
                Cardinality({i \in DOMAIN csv_files : csv_files[i] = sheet}) = 1
          /\ Range(csv_files) = Range(excel_sheets) \ {"Summary"}
    /\ "Summary" \notin DOMAIN results
    /\ "Summary" \notin DOMAIN returned
    /\ \A i \in DOMAIN log : log[i].name # "Summary"

\* a workbook whose 'Summary' sheet stands before two data sheets was
\* converted and its pairs were processed
C7_Witness ==
    /\ pc = "returned"
    /\ Len(excel_sheets) = 3
    /\ excel_sheets[1] = "Summary"
    /\ Len(csv_files) = 2
    /\ total_count(returned) = 2

\* the value s is carried by the result r
Carries(r, s) ==
    \/ s \in Range(r.error_message)
    \/ \E k \in DOMAIN r.error_details : r.error_details[k] = s

\* C8: the error raised for a failed external stage carries the pair name
\* and the stderr of the run, and the result recorded for the pair carries
\* the message and that stderr.
C8_FailureCarriesStderr ==
    /\ (pc = "except_pair" /\ exc.type \in {"DiffProcessorError", "DXFProcessorError"}) =>
          /\ exc.pair_name = pair_name
          /\ log[Len(log)].outcome = "nonzero" => exc.stderr = log[Len(log)].stderr
    /\ \A i \in DOMAIN log :
          (log[i].ev \in StageEvs /\ log[i].outcome = "nonzero"
              /\ log[i].name \in DOMAIN results) =>
                  Carries(results[log[i].name], log[i].stderr)

\* ------------------------------------------------------------------------
\* scripts/diff_label_processor.py
\* ------------------------------------------------------------------------
Whitespace == {" ", "\t"}

\* str.strip(): leading and trailing whitespace removed
RECURSIVE LStrip(_)
LStrip(t) == IF t # <<>> /\ Head(t) \in Whitespace THEN LStrip(Tail(t)) ELSE t

RECURSIVE RStrip(_)
RStrip(t) ==
    IF t # <<>> /\ t[Len(t)] \in Whitespace THEN RStrip(SubSeq(t, 1, Len(t) - 1)) ELSE t

Strip(t) == RStrip(LStrip(t))

Digits == {"0", "1", "2", "3", "4", "5", "6", "7", "8", "9"}

DigitValue(c) ==
    CASE c = "0" -> 0 [] c = "1" -> 1 [] c = "2" -> 2 [] c = "3" -> 3
      [] c = "4" -> 4 [] c = "5" -> 5 [] c = "6" -> 6 [] c = "7" -> 7
      [] c = "8" -> 8 [] c = "9" -> 9

HasSign(t) == t # <<>> /\ Head(t) \in {"+", "-"}

Unsigned(t) == IF HasSign(t) THEN Tail(t) ELSE t

\* int(text) accepts an optional sign followed by decimal digits
\* (anything else raises ValueError)
IsIntText(t) ==
    /\ Unsigned(t) # <<>>
    /\ \A i \in DOMAIN Unsigned(t) : Unsigned(t)[i] \in Digits

RECURSIVE DigitsValue(_)
DigitsValue(t) ==
    IF t = <<>> THEN 0
    ELSE 10 * DigitsValue(SubSeq(t, 1, Len(t) - 1)) + DigitValue(t[Len(t)])

IntValue(t) ==
    IF HasSign(t) /\ Head(t) = "-" THEN 0 - DigitsValue(Unsigned(t))
    ELSE DigitsValue(Unsigned(t))

AOnlyText == <<"A", " ", "O", "n", "l", "y">>
BOnlyText == <<"B", " ", "O", "n", "l", "y">>
DifferentText == <<"D", "i", "f", "f", "e", "r", "e", "n", "t">>

\* the four lists of process_csv_file, and whether it ended in sys.exit(1)
NoLabels == [failed |-> FALSE, deleted |-> <<>>, added |-> <<>>,
             modified_a |-> <<>>, modified_b |-> <<>>]

\* faulty variant: 'if' in place of 'else' on the Different branch, zero dropped
ModifiedListOf_ZeroDropped(difference_count) ==
    IF difference_count < 0 THEN "modified_a"
    ELSE IF difference_count > 0 THEN "modified_b" ELSE "none"

\* if difference_count < 0: modified_a_labels ... else: modified_b_labels ...
ModifiedListOf(difference_count) ==
    IF difference_count < 0 THEN "modified_a" ELSE "modified_b"

\* faulty variant: a Different row is also appended to the other modified list
ClassifyRow_BothSides(acc, label, comparison_result, difference_count) ==
    IF comparison_result = AOnlyText
    THEN [acc EXCEPT !.deleted = Append(@, label)]
    ELSE IF comparison_result = BOnlyText
    THEN [acc EXCEPT !.added = Append(@, label)]
    ELSE IF comparison_result = DifferentText
    THEN [acc EXCEPT !.modified_a = Append(@, label),
                     !.modified_b = Append(@, label)]
    ELSE acc

\* faulty variant: labels are put at the front of their list
ClassifyRow_Prepend(acc, label, comparison_result, difference_count) ==
    IF comparison_result = AOnlyText
    THEN [acc EXCEPT !.deleted = <<label>> \o @]
    ELSE IF comparison_result = BOnlyText
    THEN [acc EXCEPT !.added = <<label>> \o @]
    ELSE IF comparison_result = DifferentText
    THEN IF difference_count < 0
         THEN [acc EXCEPT !.modified_a = <<label>> \o @]
         ELSE [acc EXCEPT !.modified_b = <<label>> \o @]
    ELSE acc

\* the if / elif chain on comparison_result
ClassifyRow(acc, label, comparison_result, difference_count) ==
    IF comparison_result = AOnlyText
    THEN [acc EXCEPT !.deleted = Append(@, label)]
    ELSE IF comparison_result = BOnlyText
    THEN [acc EXCEPT !.added = Append(@, label)]
    ELSE IF comparison_result = DifferentText
    THEN IF ModifiedListOf(difference_count) = "modified_a"
         THEN [acc EXCEPT !.modified_a = Append(@, label)]
         ELSE IF ModifiedListOf(difference_count) = "modified_b"
         THEN [acc EXCEPT !.modified_b = Append(@, label)]
         ELSE acc
    ELSE acc

\* faulty variant: a row with fewer than 5 fields ends the run like a bad
\* delta count does
RECURSIVE ClassifyRows_ShortRowFails(_, _)
ClassifyRows_ShortRowFails(rows, acc) ==
    IF rows = <<>> THEN acc
    ELSE LET row == Head(rows)
         IN IF Len(row) < 5 \/ ~IsIntText(Strip(row[5]))
            THEN [acc EXCEPT !.failed = TRUE]
            ELSE ClassifyRows_ShortRowFails(Tail(rows),
                     ClassifyRow(acc, Strip(row[1]), Strip(row[4]),
                                 IntValue(Strip(row[5]))))

\* for row_num, row in enumerate(csv_reader, start=2): ...
RECURSIVE ClassifyRows(_, _)
ClassifyRows(rows, acc) ==
    IF rows = <<>> THEN acc
    ELSE LET row == Head(rows)
         IN IF Len(row) < 5
            THEN ClassifyRows(Tail(rows), acc)
            ELSE IF ~IsIntText(Strip(row[5]))
            THEN [acc EXCEPT !.failed = TRUE]
            ELSE ClassifyRows(Tail(rows),
                     ClassifyRow(acc, Strip(row[1]), Strip(row[4]),
                                 IntValue(Strip(row[5]))))

\* process_csv_file: header = next(csv_reader) raises StopIteration on a file
\* without any row; every Exception ends in sys.exit(1)
process_csv_file(table) ==
    IF table = <<>> THEN [NoLabels EXCEPT !.failed = TRUE]
    ELSE ClassifyRows(Tail(table), NoLabels)

\* ---- comparison tables -------------------------------------------------
HeaderRow == <<<<"L">>, <<"A">>, <<"B">>, <<"S">>, <<"D">>>>

LabelFields == {<<"R", "1">>, <<" ", "R", "1">>, <<"R", "2">>}
OutcomeFields == {AOnlyText, BOnlyText, DifferentText, <<" ">> \o DifferentText,
                  <<"S", "a", "m", "e">>}
DeltaFields == {<<"-", "1">>, <<"0">>, <<"2">>, <<"x">>}

FullRows == {<<l, <<"1">>, <<"1">>, o, d>> :
                l \in LabelFields, o \in OutcomeFields, d \in DeltaFields}
ShortRows == {<<>>, <<<<"R", "1">>, <<"1">>, <<"0">>, AOnlyText>>}
DataRows == FullRows \cup ShortRows

\* a CSV file: no row at all, or the header followed by data rows
CsvTables == {<<>>} \cup {<<HeaderRow>> \o rows : rows \in SeqsUpTo(DataRows, MaxRows)}

InitCsv ==
    /\ UiIdle
    /\ csv_table \in CsvTables
    /\ csv_pc = "ready"
    /\ deleted_labels = <<>>
    /\ added_labels = <<>>
    /\ modified_a_labels = <<>>
    /\ modified_b_labels = <<>>
    /\ label_files = <<>>
    /\ file_pairs = <<>>
    /\ progress_callback = "None"
    /\ pc = "idle"
    /\ excel_sheets = <<>>
    /\ csv_files = <<>>
    /\ file_pairs_dict = NoResults
    /\ idx = 0
    /\ output_dir = <<>>
    /\ outputs = <<>>
    /\ exc = NoExc
    /\ results = NoResults
    /\ returned = NoResults
    /\ log = <<>>
    /\ AnnotatorIdle

\* main(): deleted_labels, added_labels, modified_a_labels, modified_b_labels
\*             = process_csv_file(input_path)
ProcessCsvFile ==
    /\ csv_pc = "ready"
    /\ LET r == process_csv_file(csv_table)
       IN IF r.failed
          THEN /\ csv_pc' = "exit1"
               /\ UNCHANGED <<deleted_labels, added_labels,
                              modified_a_labels, modified_b_labels>>
          ELSE /\ csv_pc' = "classified"
               /\ deleted_labels' = r.deleted
               /\ added_labels' = r.added
               /\ modified_a_labels' = r.modified_a
               /\ modified_b_labels' = r.modified_b
    /\ UNCHANGED <<csv_table, label_files>>
    /\ UNCHANGED <<pvars, avars, uvars>>

\* main(): the four write_label_file calls that follow process_csv_file;
\* sys.exit(1) inside process_csv_file ends the process before them
WriteLabelFiles ==
    /\ csv_pc = "classified"
    /\ csv_pc' = "written"
    /\ label_files' = << [kind |-> "deleted", labels |-> deleted_labels],
                        [kind |-> "added", labels |-> added_labels],
                        [kind |-> "modified_a", labels |-> modified_a_labels],
                        [kind |-> "modified_b", labels |-> modified_b_labels] >>
    /\ UNCHANGED <<csv_table, deleted_labels, added_labels,
                   modified_a_labels, modified_b_labels>>
    /\ UNCHANGED <<pvars, avars, uvars>>

NextCsv ==
    \/ ProcessCsvFile
    \/ WriteLabelFiles

SpecCsv == InitCsv /\ [][NextCsv]_vars

\* ------------------------------------------------------------------------
\* Properties of process_csv_file
\* ------------------------------------------------------------------------
\* the data rows (all rows after the header) with at least 5 fields
ValidRowIdx == {i \in 2..Len(csv_table) : Len(csv_table[i]) >= 5}

\* those of them whose outcome is one of the three the classifier knows
RecognisedRowIdx ==
    {i \in ValidRowIdx :
        Strip(csv_table[i][4]) \in {AOnlyText, BOnlyText, DifferentText}}

RowLabel(i) == Strip(csv_table[i][1])

Occurrences(list, label) == Cardinality({i \in DOMAIN list : list[i] = label})

OccurrencesInLists(label) ==
    Occurrences(deleted_labels, label) + Occurrences(added_labels, label)
        + Occurrences(modified_a_labels, label)
        + Occurrences(modified_b_labels, label)

ListsHolding(label) ==
    {list \in {"deleted", "added", "modified_a", "modified_b"} :
        \/ list = "deleted" /\ label \in Range(deleted_labels)
        \/ list = "added" /\ label \in Range(added_labels)
        \/ list = "modified_a" /\ label \in Range(modified_a_labels)
        \/ list = "modified_b" /\ label \in Range(modified_b_labels)}

AllListedLabels ==
    Range(deleted_labels) \cup Range(added_labels)
        \cup Range(modified_a_labels) \cup Range(modified_b_labels)

TotalListed ==
    Len(deleted_labels) + Len(added_labels)
        + Len(modified_a_labels) + Len(modified_b_labels)

\* C9 as stated: after a classification that did not fail, the lengths of
\* the four lists sum to the number of data rows with at least 5 fields.
C9_EveryValidRowListed ==
    csv_pc = "classified" => TotalListed = Cardinality(ValidRowIdx)

\* C9, amended: after a classification that did not fail, every data row
\* with at least 5 fields whose outcome is 'A Only', 'B Only' or 'Different'
\* contributes its label to exactly one list and every other row to none:
\* each label occurs in the four lists together as often as such rows carry
\* it, and the four lengths sum to the number of such rows.
C9_RecognisedRowsListedOnce ==
    csv_pc = "classified" =>
        /\ TotalListed = Cardinality(RecognisedRowIdx)
        /\ \A label \in AllListedLabels \cup {RowLabel(i) : i \in ValidRowIdx} :
              OccurrencesInLists(label)
                  = Cardinality({i \in RecognisedRowIdx : RowLabel(i) = label})

\* a table with a row of a known outcome and a full row of an unknown one
\* was classified
C9_Witness ==
    /\ csv_pc = "classified"
    /\ RecognisedRowIdx # {}
    /\ ValidRowIdx \ RecognisedRowIdx # {}
    /\ TotalListed = 1

\* C10 as stated: after a classification that did not fail, no label occurs
\* in more than one of the four lists, whatever the rows.
C10_ListsDisjoint ==
    csv_pc = "classified" =>
        \A label \in AllListedLabels : Cardinality(ListsHolding(label)) = 1

\* C10, amended: after a classification that did not fail, a label occurs in
\* more than one list only when at least two classified rows carry it; the
\* four lists are pairwise disjoint whenever the labels of the classified
\* rows are pairwise distinct.
C10_DisjointForDistinctLabels ==
    csv_pc = "classified" =>
        \A label \in AllListedLabels :
            Cardinality(ListsHolding(label)) > 1 =>
                Cardinality({i \in RecognisedRowIdx : RowLabel(i) = label}) > 1

\* two rows with different labels were classified into different lists
C10_Witness ==
    /\ csv_pc = "classified"
    /\ Cardinality(RecognisedRowIdx) = 2
    /\ Cardinality(AllListedLabels) = 2
    /\ \A label \in AllListedLabels : Cardinality(ListsHolding(label)) = 1
    /\ modified_a_labels # <<>>
    /\ modified_b_labels # <<>>

\* ---- reference filter ---------------------------------------------------
RowOutcome(i) == Strip(csv_table[i][4])

RowDelta(i) == IntValue(Strip(csv_table[i][5]))

\* the list that data row i belongs to by the reference rule, "none" when
\* it belongs to no list
ReferenceListOf(i) ==
    IF Len(csv_table[i]) < 5 THEN "none"
    ELSE IF RowOutcome(i) = AOnlyText THEN "deleted"
    ELSE IF RowOutcome(i) = BOnlyText THEN "added"
    ELSE IF RowOutcome(i) = DifferentText /\ RowDelta(i) < 0 THEN "modified_a"
    ELSE IF RowOutcome(i) = DifferentText /\ RowDelta(i) >= 0 THEN "modified_b"
    ELSE "none"

\* the labels of the rows 2..n that belong to `list`, in row order
RECURSIVE ReferenceFilter(_, _)
ReferenceFilter(list, n) ==
    IF n < 2 THEN <<>>
    ELSE IF ReferenceListOf(n) = list
    THEN Append(ReferenceFilter(list, n - 1), RowLabel(n))
    ELSE ReferenceFilter(list, n - 1)

Classified == csv_pc \in {"classified", "written"}

RemoveRow(table, i) == SubSeq(table, 1, i - 1) \o SubSeq(table, i + 1, Len(table))

ShortRowIdx == {i \in 2..Len(csv_table) : Len(csv_table[i]) < 5}

\* C12: a data row with fewer than 5 fields changes nothing: the run on the
\* table fails exactly when the run on the table without that row fails,
\* and when it does not fail the four lists are those of the table without
\* that row.
C12_ShortRowsSkipped ==
    csv_pc \in {"classified", "written", "exit1"} =>
        \A i \in ShortRowIdx :
            LET without == process_csv_file(RemoveRow(csv_table, i))
            IN /\ without.failed <=> csv_pc = "exit1"
               /\ ~without.failed =>
                      /\ deleted_labels = without.deleted
                      /\ added_labels = without.added
                      /\ modified_a_labels = without.modified_a
                      /\ modified_b_labels = without.modified_b

\* a table with a short row before a full row was classified, and the full
\* row is listed
C12_Witness ==
    /\ csv_pc = "classified"
    /\ Len(csv_table) = 3
    /\ ShortRowIdx = {2}
    /\ added_labels = <<RowLabel(3)>>

\* ---- failure of the classification --------------------------------------
BadDeltaRowIdx == {i \in ValidRowIdx : ~IsIntText(Strip(csv_table[i][5]))}

\* C13 as stated: the run ends in exit code 1 exactly when some data row
\* with at least 5 fields has a fifth field that is not an integer (a file
\* without any row included among the ones classified), and after exit
\* code 1 none of the four label files is written.
C13_FailsOnlyOnBadDelta ==
    csv_pc \in {"classified", "written", "exit1"} =>
        /\ csv_pc = "exit1" <=> BadDeltaRowIdx # {}
        /\ csv_pc = "exit1" => label_files = <<>>

\* ------------------------------------------------------------------------
\* Properties of _run_dxf_processor
\* ------------------------------------------------------------------------
\* the annotation run that has just raised into the pair's except clause
TimedOutStage ==
    IF pc = "except_pair" /\ log # <<>> /\ log[Len(log)].outcome = "timeout"
          /\ log[Len(log)].ev \in {"annotate_a", "annotate_b"}
    THEN log[Len(log)].ev
    ELSE "none"

\* C19 as stated: the DXFProcessorError raised for a timeout carries the
\* file_type of the run that timed out, 'A' for revision A and 'B' for
\* revision B, and its message names that file.
C19_TimeoutNamesItsStage ==
    /\ TimedOutStage = "annotate_a" =>
           exc.file_type = "A" /\ exc.message[3] = "A"
    /\ TimedOutStage = "annotate_b" =>
           exc.file_type = "B" /\ exc.message[3] = "B"

\* ------------------------------------------------------------------------
\* scripts/dxf_processor.py: the rule resolver
\* ------------------------------------------------------------------------
UpperLetters == <<"A", "B", "C", "D", "E", "F", "G", "H", "I", "J", "K", "L", "M",
                  "N", "O", "P", "Q", "R", "S", "T", "U", "V", "W", "X", "Y", "Z">>
LowerLetters == <<"a", "b", "c", "d", "e", "f", "g", "h", "i", "j", "k", "l", "m",
                  "n", "o", "p", "q", "r", "s", "t", "u", "v", "w", "x", "y", "z">>

\* str.lower()
LowerChar(c) ==
    IF \E i \in DOMAIN UpperLetters : UpperLetters[i] = c
    THEN LowerLetters[CHOOSE i \in DOMAIN UpperLetters : UpperLetters[i] = c]
    ELSE c

Lower(t) == [i \in DOMAIN t |-> LowerChar(t[i])]

\* self.color_mapping: colour name -> palette index
color_mapping ==
    (<<"w", "h", "i", "t", "e">> :> 7) @@ (<<"r", "e", "d">> :> 1)
        @@ (<<"y", "e", "l", "l", "o", "w">> :> 2) @@ (<<"g", "r", "e", "e", "n">> :> 3)
        @@ (<<"c", "y", "a", "n">> :> 4) @@ (<<"b", "l", "u", "e">> :> 5)
        @@ (<<"m", "a", "g", "e", "n", "t", "a">> :> 6)
        @@ (<<"b", "l", "a", "c", "k">> :> 0)

\* self.color_mapping.get(color_name.lower(), self.line_color)
PaletteIndex(color_name) ==
    IF Lower(color_name) \in DOMAIN color_mapping
    THEN color_mapping[Lower(color_name)]
    ELSE line_color

\* re.sub(r'\s+', ' ', text): every run of whitespace becomes one space
RECURSIVE CollapseWhitespace(_)
CollapseWhitespace(t) ==
    IF t = <<>> THEN <<>>
    ELSE IF Head(t) \in Whitespace
    THEN <<" ">> \o CollapseWhitespace(LStrip(t))
    ELSE <<Head(t)>> \o CollapseWhitespace(Tail(t))

\* _normalize_whitespace: re.sub(r'\s+', ' ', text.strip())
normalize_whitespace(text) == CollapseWhitespace(Strip(text))

\* the rules of a table, in dict order, with a string equal to the text
\* after normalisation of both
MatchingRules(mapping, normalized_text) ==
    {i \in DOMAIN mapping :
        \E j \in DOMAIN mapping[i].strings :
            normalize_whitespace(mapping[i].strings[j]) = normalized_text}

\* faulty variant: the rule declared last wins
FirstMatch_LastWins(mapping, normalized_text) ==
    LET matching == MatchingRules(mapping, normalized_text)
    IN IF matching = {} THEN <<>>
       ELSE <<mapping[CHOOSE i \in matching : \A k \in matching : i >= k].color>>

\* for color_name, string_list in mapping.items(): for match_string in ...:
\* the colour name of the first rule that matches, <<>> when none does
FirstMatch(mapping, normalized_text) ==
    LET matching == MatchingRules(mapping, normalized_text)
    IN IF matching = {} THEN <<>>
       ELSE <<mapping[CHOOSE i \in matching : \A k \in matching : i <= k].color>>

\* faulty variant: the -tc table is searched before the -cc table
get_text_color_for_entity_TcFirst(text) ==
    IF text = <<>> THEN line_color
    ELSE LET normalized_text == normalize_whitespace(text)
             tc == FirstMatch(text_color_mapping, normalized_text)
             cc == FirstMatch(char_color_mapping, normalized_text)
         IN IF tc # <<>> THEN PaletteIndex(tc[1])
            ELSE IF cc # <<>> THEN PaletteIndex(cc[1])
            ELSE line_color

\* _get_text_color_for_entity
get_text_color_for_entity(text) ==
    IF text = <<>> THEN line_color
    ELSE LET normalized_text == normalize_whitespace(text)
             cc == FirstMatch(char_color_mapping, normalized_text)
             tc == FirstMatch(text_color_mapping, normalized_text)
         IN IF cc # <<>> THEN PaletteIndex(cc[1])
            ELSE IF tc # <<>> THEN PaletteIndex(tc[1])
            ELSE line_color

\* ---- rule tables and texts ---------------------------------------------
ColorNames == {<<"r", "e", "d">>, <<"B", "l", "u", "e">>,
               <<"o", "r", "a", "n", "g", "e">>}

\* the string lists of a rule: an empty and a blank string (-tc red:," "),
\* one string, two strings of which the second is padded
StringLists ==
    { << <<>>, <<" ">> >>,
      << <<"a", " ", "b">> >>,
      << <<"x">>, <<" ", "a", " ", " ", "b">> >> }

Rules == [color : ColorNames, strings : StringLists]

\* a dict has each colour name once
RuleTables ==
    {t \in SeqsUpTo(Rules, MaxRules) :
        \A i, j \in DOMAIN t : i # j => t[i].color # t[j].color}

Texts == {<<>>, <<" ">>, <<"a", " ", "b">>, <<"a", "\t", " ", "b">>,
          <<" ", "x">>, <<"x", " ", "y">>}

LineColors == {7, 3}

InitColor ==
    /\ UiIdle
    /\ char_color_mapping \in RuleTables
    /\ text_color_mapping \in RuleTables
    /\ line_color \in LineColors
    /\ text_content \in Texts
    /\ text_color = 0
    /\ color_pc = "ready"
    /\ line_width_mm = 250
    /\ min_font_size_mm = 25
    /\ EntityIdle
    /\ DocumentIdle
    /\ PipelineIdle
    /\ CsvIdle

\* text_color = self._get_text_color_for_entity(text_content)
GetTextColorForEntity ==
    /\ color_pc = "ready"
    /\ text_color' = get_text_color_for_entity(text_content)
    /\ color_pc' = "resolved"
    /\ UNCHANGED <<line_width_mm, line_color, text_color_mapping,
                   char_color_mapping, min_font_size_mm, text_content,
                   entity_before, entity, entity_pc, doc, dxf_pc, saved, dxf_result>>
    /\ UNCHANGED <<pvars, cvars, uvars>>

NextColor == GetTextColorForEntity

SpecColor == InitColor /\ [][NextColor]_vars

\* ------------------------------------------------------------------------
\* Properties of _get_text_color_for_entity
\* ------------------------------------------------------------------------
Normalized == normalize_whitespace(text_content)

InCharTable == MatchingRules(char_color_mapping, Normalized) # {}
InTextTable == MatchingRules(text_color_mapping, Normalized) # {}

\* the first rule of the -cc table, in declaration order, that holds the text
FirstCharRule ==
    char_color_mapping[CHOOSE i \in MatchingRules(char_color_mapping, Normalized) :
        \A k \in MatchingRules(char_color_mapping, Normalized) : i <= k]

\* C14 as stated: a text that equals, after normalisation, a rule string of
\* the -cc table and a rule string of the -tc table resolves to the palette
\* index of the matching -cc rule.
C14_CharColorOutranks ==
    color_pc = "resolved" /\ InCharTable /\ InTextTable =>
        text_color = PaletteIndex(FirstCharRule.color)

\* C14, amended: the same for every text whose normalised form is not empty.
C14_CharColorOutranksNonEmpty ==
    color_pc = "resolved" /\ Normalized # <<>> /\ InCharTable /\ InTextTable =>
        text_color = PaletteIndex(FirstCharRule.color)

\* a text held by a red -cc rule and by a Blue -tc rule was resolved to red
C14_Witness ==
    /\ color_pc = "resolved"
    /\ Normalized # <<>>
    /\ InCharTable /\ InTextTable
    /\ FirstCharRule.color = <<"r", "e", "d">>
    /\ FirstMatch(text_color_mapping, Normalized) = << <<"B", "l", "u", "e">> >>
    /\ text_color = 1

\* C15 as stated: every text with the same normalised form as the resolved
\* one resolves to the same colour under the same tables and default.
C15_WhitespaceInsensitive ==
    color_pc = "resolved" =>
        \A other \in Texts :
            normalize_whitespace(other) = Normalized =>
                get_text_color_for_entity(other) = text_color

\* C20 as stated: a text whose normalised form is empty resolves to the
\* default colour, whatever the tables hold.
C20_BlankTextGetsDefault ==
    color_pc = "resolved" /\ Normalized = <<>> => text_color = line_color

\* ------------------------------------------------------------------------
\* scripts/dxf_processor.py: the handlers of one entity
\* ------------------------------------------------------------------------
\* An entity is a record: dxftype, the set `has` of the attribute names for
\* which hasattr(entity.dxf, name) is true, and the attribute values.  An
\* optional override (true_color, color_name) is a set: {} is Python's None.
\* `visits` counts the calls of _process_entity with the entity.
\* `fault` names the operation on this entity that raises ("none": no
\* operation raises); `trace` records what became of the entity.
LineTypes == {"LINE", "POLYLINE", "LWPOLYLINE", "CIRCLE", "ARC", "ELLIPSE", "SPLINE",
              "RAY", "XLINE", "POINT", "SOLID", "TRACE", "3DFACE", "HELIX", "REGION"}
TextTypes == {"TEXT", "MTEXT", "ATTRIB", "ATTDEF"}
\* entity_type.startswith('DIMENSION') or entity_type in [...]
DimensionTypes == {"DIMENSION", "LEADER", "MULTILEADER"}

\* the widths, in thousandths of a millimetre up to 2.12 mm, whose binary64
\* product with 100 falls just under the whole number: 0.29 * 100 is
\* 28.999999999999996
FloatShortfall == {290, 570, 580, 1130, 1140, 1150, 1160, 2010, 2030, 2050, 2070}

\* int(self.line_width_mm * 100): the binary64 product, truncated
LineweightOf(width) ==
    IF width \in FloatShortfall THEN width \div 10 - 1 ELSE width \div 10

\* getattr(entity.dxf, 'text', '')
TextOf(e) == IF "text" \in e.has THEN e.text ELSE <<>>

\* if hasattr(entity.dxf, name): entity.dxf.name = value
\* (skipped once the handler's try block has been left by an exception)
Assign(e, name, value) ==
    IF e.trace # "handling" \/ name \notin e.has THEN e
    ELSE IF e.fault = name THEN [e EXCEPT !.trace = "warned"]
    ELSE [e EXCEPT ![name] = value]

\* if entity.dxf.name < self.min_font_size_mm: entity.dxf.name = ...
RaiseToMinimum(e, name) ==
    IF e.trace # "handling" \/ name \notin e.has THEN e
    ELSE IF e[name] < min_font_size_mm THEN Assign(e, name, min_font_size_mm)
    ELSE e

\* faulty variant: the palette index is set and the overrides are left
ClearOverrides_Kept(e) == e

\* entity.dxf.true_color = None; entity.dxf.color_name = None
ClearOverrides(e) == Assign(Assign(e, "true_color", {}), "color_name", {})

process_line_entity(e) ==
    ClearOverrides(Assign(Assign(e, "lineweight", LineweightOf(line_width_mm)),
                          "color", line_color))

\* if hasattr(.., 'dimtxsty') and hasattr(.., 'dimtxt'): ...
\* elif hasattr(.., 'text_height'): ...
DimensionTextSize(e) ==
    IF "dimtxsty" \in e.has /\ "dimtxt" \in e.has
    THEN RaiseToMinimum(e, "dimtxt")
    ELSE IF "text_height" \in e.has
    THEN RaiseToMinimum(e, "text_height")
    ELSE e

process_dimension_entity(e) ==
    DimensionTextSize(Assign(ClearOverrides(Assign(e, "color", line_color)),
                             "lineweight", LineweightOf(line_width_mm)))

process_insert_entity(e) ==
    Assign(ClearOverrides(Assign(e, "color", line_color)),
           "lineweight", LineweightOf(line_width_mm))

process_hatch_entity(e) == ClearOverrides(Assign(e, "color", line_color))

process_general_entity(e) ==
    Assign(ClearOverrides(Assign(e, "color", line_color)),
           "lineweight", LineweightOf(line_width_mm))

\* ---- _clean_mtext_content ------------------------------------------------
Backslash == "\\"

IndexesOf(t, c) == {k \in DOMAIN t : t[k] = c}

Least(S) == CHOOSE k \in S : \A m \in S : k <= m

Greatest(S) == CHOOSE k \in S : \A m \in S : k >= m

\* re.sub(r'\\c[^;]*;', '', t) for a code letter c: from each backslash
\* followed by c, up to the next semicolon
RECURSIVE RemoveCode(_, _)
RemoveCode(t, c) ==
    IF t = <<>> THEN <<>>
    ELSE IF /\ Len(t) >= 3 /\ t[1] = Backslash /\ t[2] = c
            /\ IndexesOf(t, ";") \cap (3..Len(t)) # {}
    THEN RemoveCode(SubSeq(t, Least(IndexesOf(t, ";") \cap (3..Len(t))) + 1, Len(t)), c)
    ELSE <<Head(t)>> \o RemoveCode(Tail(t), c)

\* the end of the longest stretch after t[1] that holds no backslash
StretchEnd(t) ==
    IF IndexesOf(t, Backslash) \cap (2..Len(t)) = {} THEN Len(t)
    ELSE Least(IndexesOf(t, Backslash) \cap (2..Len(t))) - 1

\* re.sub(r'\\[^\\]*;', '', t): from each backslash up to the last semicolon
\* that comes before the next backslash
RECURSIVE RemoveOtherCodes(_)
RemoveOtherCodes(t) ==
    IF t = <<>> THEN <<>>
    ELSE IF /\ t[1] = Backslash
            /\ IndexesOf(t, ";") \cap (2..StretchEnd(t)) # {}
    THEN RemoveOtherCodes(
             SubSeq(t, Greatest(IndexesOf(t, ";") \cap (2..StretchEnd(t))) + 1, Len(t)))
    ELSE <<Head(t)>> \o RemoveOtherCodes(Tail(t))

\* t.replace('\\' + c, d): every backslash followed by c becomes d
RECURSIVE ReplaceEscape(_, _, _)
ReplaceEscape(t, c, d) ==
    IF t = <<>> THEN <<>>
    ELSE IF Len(t) >= 2 /\ t[1] = Backslash /\ t[2] = c
    THEN <<d>> \o ReplaceEscape(SubSeq(t, 3, Len(t)), c, d)
    ELSE <<Head(t)>> \o ReplaceEscape(Tail(t), c, d)

\* re.sub(r' +', ' ', t): every run of spaces becomes one space
RECURSIVE CollapseSpaces(_)
CollapseSpaces(t) ==
    IF t = <<>> THEN <<>>
    ELSE IF Head(t) = " " /\ Len(t) >= 2 /\ t[2] = " "
    THEN CollapseSpaces(Tail(t))
    ELSE <<Head(t)>> \o CollapseSpaces(Tail(t))

clean_mtext_content(text) ==
    IF text = <<>> THEN text
    ELSE LET codes == RemoveOtherCodes(
                          RemoveCode(RemoveCode(RemoveCode(text, "f"), "H"), "C"))
             escapes == ReplaceEscape(
                            ReplaceEscape(
                                ReplaceEscape(ReplaceEscape(codes, "~", " "),
                                              Backslash, Backslash),
                                "{", "{"),
                            "}", "}")
         IN Strip(CollapseSpaces(escapes))

\* ---- _process_text_entity, _process_entity --------------------------------
\* the text whose colour is looked up: the text of a TEXT, the cleaned text
\* of an MTEXT, '' for ATTRIB and ATTDEF
TextContent(e) ==
    IF e.dxftype = "TEXT" THEN TextOf(e)
    ELSE IF e.dxftype = "MTEXT" THEN clean_mtext_content(TextOf(e))
    ELSE <<>>

\* if entity_type == 'TEXT' and hasattr(.., 'height'): ... elif ...
TextSize(e) ==
    IF e.dxftype = "TEXT" /\ "height" \in e.has
    THEN RaiseToMinimum(e, "height")
    ELSE IF e.dxftype = "MTEXT" /\ "char_height" \in e.has
    THEN RaiseToMinimum(e, "char_height")
    ELSE IF e.dxftype \in {"ATTRIB", "ATTDEF"} /\ "height" \in e.has
    THEN RaiseToMinimum(e, "height")
    ELSE e

process_text_entity(e) ==
    TextSize(ClearOverrides(
                 Assign(e, "color", get_text_color_for_entity(TextContent(e)))))

\* the if / elif chain of _process_entity on entity.dxftype()
Handled(e) ==
    IF e.dxftype \in LineTypes THEN process_line_entity(e)
    ELSE IF e.dxftype \in TextTypes THEN process_text_entity(e)
    ELSE IF e.dxftype \in DimensionTypes THEN process_dimension_entity(e)
    ELSE IF e.dxftype = "INSERT" THEN process_insert_entity(e)
    ELSE IF e.dxftype = "HATCH" THEN process_hatch_entity(e)
    ELSE process_general_entity(e)

\* _process_entity: an exception of entity.dxftype() or of the look at the
\* colour (lines 119-126) is raised to the caller; an exception inside a
\* handler is caught there and logged
Annotated(e) ==
    IF e.trace = "handling" THEN [e EXCEPT !.trace = "annotated"] ELSE e

process_entity(e) ==
    IF e.fault = "dxftype" THEN [e EXCEPT !.trace = "raised", !.visits = @ + 1]
    ELSE Annotated(Handled([e EXCEPT !.trace = "handling", !.visits = @ + 1]))

\* ---- entities and settings ----------------------------------------------
CommonAttrs == {"color", "true_color", "color_name", "lineweight"}

EntityTypes == {"LINE", "CIRCLE", "TEXT", "MTEXT", "ATTRIB", "ATTDEF", "DIMENSION",
                "LEADER", "INSERT", "HATCH", "VIEWPORT", "ARC_DIMENSION"}

\* the attributes beside the common ones that an entity of a type may have
TypeAttrs(type) ==
    IF type = "TEXT" THEN {"text", "height"}
    ELSE IF type = "MTEXT" THEN {"text", "char_height"}
    ELSE IF type \in {"ATTRIB", "ATTDEF"} THEN {"text", "height"}
    ELSE IF type \in DimensionTypes THEN {"dimtxsty", "dimtxt", "text_height"}
    ELSE {}

EntityTexts == {<<>>, <<"a", " ", "b">>, <<"x">>,
                <<Backslash, "C", "1", ";", "a", " ", " ", "b">>,
                <<"a", Backslash, "P", "b">>, <<Backslash, "P", "a", ";">>}

\* sizes in tenths of a millimetre: below, at and above the default minimum
Sizes == {10, 25, 50}

Overrides == {[true_color |-> {}, color_name |-> {}],
              [true_color |-> {16711680}, color_name |-> {"BOOK$RED"}]}

Faults == {"none", "color", "dxftype"}

Entity(type, has, size, size2, over, text, fault) ==
    [dxftype |-> type, has |-> has, color |-> 2,
     true_color |-> over.true_color, color_name |-> over.color_name,
     lineweight |-> 13, height |-> size, char_height |-> size,
     dimtxsty |-> "Standard", dimtxt |-> size, text_height |-> size2,
     text |-> text, fault |-> fault, trace |-> "untouched", visits |-> 0]

Entities ==
    {Entity(type, common \cup extra, size, size2, over, text, fault) :
        type \in EntityTypes, common \in {CommonAttrs, {}},
        extra \in UNION {SUBSET TypeAttrs(t) : t \in EntityTypes},
        size \in Sizes, size2 \in {10, 50}, over \in Overrides,
        text \in EntityTexts, fault \in Faults}

\* the rule tables of the runs on one entity
\* line widths in thousandths of a millimetre: the default, one with a
\* third decimal below a half hundredth, one at a half hundredth, and 0.29
LineWidths == {250, 254, 255, 290}

EntityRules ==
    {<<>>, <<[color |-> <<"r", "e", "d">>, strings |-> << <<"a", " ", "b">> >>]>>}

InitEntity ==
    /\ UiIdle
    /\ entity_before \in {e \in Entities :
                            /\ e.has \ CommonAttrs \subseteq TypeAttrs(e.dxftype)
                            /\ "text" \notin e.has => e.text = <<>>}
    /\ entity = entity_before
    /\ entity_pc = "ready"
    /\ line_width_mm \in LineWidths
    /\ line_color \in LineColors
    /\ char_color_mapping \in EntityRules
    /\ text_color_mapping = <<>>
    /\ min_font_size_mm = 25
    /\ ResolverIdle
    /\ DocumentIdle
    /\ PipelineIdle
    /\ CsvIdle

\* self._process_entity(entity)
ProcessEntity ==
    /\ entity_pc = "ready"
    /\ entity' = process_entity(entity)
    /\ entity_pc' = IF entity'.trace = "raised" THEN "raised" ELSE "done"
    /\ UNCHANGED <<line_width_mm, line_color, text_color_mapping,
                   char_color_mapping, min_font_size_mm, text_content, text_color,
                   color_pc, entity_before, doc, dxf_pc, saved, dxf_result>>
    /\ UNCHANGED <<pvars, cvars, uvars>>

NextEntity == ProcessEntity

SpecEntity == InitEntity /\ [][NextEntity]_vars

\* ------------------------------------------------------------------------
\* Properties of the entity handlers
\* ------------------------------------------------------------------------
Max(a, b) == IF a >= b THEN a ELSE b

\* the text size attributes that an entity has: height of TEXT, ATTRIB and
\* ATTDEF, char_height of MTEXT, the text heights of a dimension-like entity
SizeAttrs(e) ==
    IF e.dxftype \in {"TEXT", "ATTRIB", "ATTDEF"} THEN {"height"} \cap e.has
    ELSE IF e.dxftype = "MTEXT" THEN {"char_height"} \cap e.has
    ELSE IF e.dxftype \in DimensionTypes THEN {"dimtxt", "text_height"} \cap e.has
    ELSE {}

\* C16 as stated: after an entity has been annotated, each text size h that
\* it had is max(h, min_font_size_mm): raised to the minimum when below it
\* and left as it was otherwise.
C16_RaiseOnly ==
    entity_pc = "done" /\ entity.trace = "annotated" =>
        \A name \in SizeAttrs(entity_before) :
            entity[name] = Max(entity_before[name], min_font_size_mm)

\* ------------------------------------------------------------------------
\* scripts/dxf_processor.py: process_dxf_file
\* ------------------------------------------------------------------------
\* for entity in container: self._process_entity(entity)
\* the loop ends at the first entity whose processing raises
Before(first, rest) ==
    [entities |-> <<first>> \o rest.entities, raised |-> rest.raised]

Untouched(entities) == [entities |-> entities, raised |-> TRUE]

RECURSIVE process_entities(_)
RECURSIVE AndTheRest(_, _)
AndTheRest(first, others) ==
    IF first.trace = "raised" THEN Before(first, Untouched(others))
    ELSE Before(first, process_entities(others))

process_entities(entities) ==
    IF entities = <<>> THEN [entities |-> <<>>, raised |-> FALSE]
    ELSE AndTheRest(process_entity(Head(entities)), Tail(entities))

\* block.name.startswith('*')
IsSystemBlock(block) == block.name # <<>> /\ Head(block.name) = "*"

\* _process_block_definitions: the loop over doc.blocks inside one try; an
\* exception that leaves _process_entity ends the loop (logged as warning)
RECURSIVE process_block_definitions(_)
RECURSIVE AndTheOtherBlocks(_, _, _)
AndTheOtherBlocks(block, done, others) ==
    IF done.raised
    THEN <<[block EXCEPT !.entities = done.entities]>> \o others
    ELSE <<[block EXCEPT !.entities = done.entities]>>
             \o process_block_definitions(others)

process_block_definitions(blocks) ==
    IF blocks = <<>> THEN <<>>
    ELSE IF IsSystemBlock(Head(blocks))
    THEN <<Head(blocks)>> \o process_block_definitions(Tail(blocks))
    ELSE AndTheOtherBlocks(Head(blocks), process_entities(Head(blocks).entities),
                           Tail(blocks))

\* for layout in doc.layouts: if layout.name != 'Model': _process_layout
LayoutBefore(layout, rest) ==
    [layouts |-> <<layout>> \o rest.layouts, raised |-> rest.raised]

RECURSIVE process_layouts(_)
RECURSIVE AndTheOtherLayouts(_, _, _)
AndTheOtherLayouts(layout, done, others) ==
    IF done.raised
    THEN [layouts |-> <<[layout EXCEPT !.entities = done.entities]>> \o others,
          raised |-> TRUE]
    ELSE LayoutBefore([layout EXCEPT !.entities = done.entities],
                      process_layouts(others))

process_layouts(layouts) ==
    IF layouts = <<>> THEN [layouts |-> <<>>, raised |-> FALSE]
    ELSE IF Head(layouts).name = "Model"
    THEN LayoutBefore(Head(layouts), process_layouts(Tail(layouts)))
    ELSE AndTheOtherLayouts(Head(layouts), process_entities(Head(layouts).entities),
                            Tail(layouts))

\* ---- documents -----------------------------------------------------------
FullOverrides == [true_color |-> {16711680}, color_name |-> {"BOOK$RED"}]

\* one entity of each kind, each with both overrides set, and two LINEs on
\* which an operation raises: the assignment of the colour, dxftype()
DocEntities ==
    {Entity(type, CommonAttrs \cup (TypeAttrs(type) \ {"dimtxsty", "dimtxt"}),
            10, 10, FullOverrides, <<>>, "none") :
        type \in {"LINE", "TEXT", "LEADER", "INSERT", "HATCH", "VIEWPORT"}}
    \cup {Entity("LINE", CommonAttrs, 10, 10, FullOverrides, <<>>, fault) :
            fault \in {"color", "dxftype"}}

\* the containers of a document in the order of doc.blocks and doc.layouts
ContainerNames == << <<"B", "1">>, <<"*", "U", "1">>, <<"B", "2">>,
                     <<"M", "o", "d", "e", "l">>, <<"L", "a", "y", "o", "u", "t", "1">> >>

Placements == [at : DOMAIN ContainerNames, entity : DocEntities]

PlacementLists ==
    {p \in SeqsUpTo(Placements, MaxEntities) :
        \A i, j \in DOMAIN p : i < j => p[i].at <= p[j].at}

RECURSIVE EntitiesAt(_, _)
EntitiesAt(p, at) ==
    IF p = <<>> THEN <<>>
    ELSE IF Head(p).at = at THEN <<Head(p).entity>> \o EntitiesAt(Tail(p), at)
    ELSE EntitiesAt(Tail(p), at)

Document(p, structure_ok) ==
    [structure_ok |-> structure_ok,
     layers |-> <<2, 7>>,
     blocks |-> [i \in 1..3 |-> [name |-> ContainerNames[i],
                                 entities |-> EntitiesAt(p, i)]],
     layouts |-> <<[name |-> "Model", entities |-> EntitiesAt(p, 4)],
                   [name |-> "Layout1", entities |-> EntitiesAt(p, 5)]>>]

Documents == {Document(p, ok) : p \in PlacementLists, ok \in BOOLEAN}

InitDxf ==
    /\ UiIdle
    /\ doc \in Documents
    /\ dxf_pc = "read"
    /\ saved = <<>>
    /\ dxf_result = NoneText
    /\ line_width_mm = 250
    /\ line_color \in LineColors
    /\ char_color_mapping = <<>>
    /\ text_color_mapping = <<>>
    /\ min_font_size_mm = 25
    /\ ResolverIdle
    /\ EntityIdle
    /\ PipelineIdle
    /\ CsvIdle

DxfSettings == <<line_width_mm, line_color, text_color_mapping, char_color_mapping,
                 min_font_size_mm, text_content, text_color, color_pc,
                 entity_before, entity, entity_pc>>

\* doc = ezdxf.readfile(dxf_file_path); except ezdxf.DXFStructureError
ReadFile ==
    /\ dxf_pc = "read"
    /\ IF doc.structure_ok
       THEN dxf_pc' = "layers" /\ UNCHANGED dxf_result
       ELSE dxf_pc' = "returned" /\ dxf_result' = "False"
    /\ UNCHANGED <<doc, saved, DxfSettings, pvars, cvars, uvars>>

\* self._process_layer_table(doc)
ProcessLayerTable ==
    /\ dxf_pc = "layers"
    /\ doc' = [doc EXCEPT !.layers = [i \in DOMAIN @ |-> line_color]]
    /\ dxf_pc' = "blocks"
    /\ UNCHANGED <<saved, dxf_result, DxfSettings, pvars, cvars, uvars>>

\* self._process_block_definitions(doc)
ProcessBlockDefinitions ==
    /\ dxf_pc = "blocks"
    /\ doc' = [doc EXCEPT !.blocks = process_block_definitions(@)]
    /\ dxf_pc' = "modelspace"
    /\ UNCHANGED <<saved, dxf_result, DxfSettings, pvars, cvars, uvars>>

\* msp = doc.modelspace(); self._process_modelspace(msp)
ProcessModelspace ==
    /\ dxf_pc = "modelspace"
    /\ \E done \in {process_entities(doc.layouts[1].entities)} :
          /\ doc' = [doc EXCEPT !.layouts[1].entities = done.entities]
          /\ dxf_pc' = IF done.raised THEN "except" ELSE "layouts"
    /\ UNCHANGED <<saved, dxf_result, DxfSettings, pvars, cvars, uvars>>

\* for layout in doc.layouts: ...
ProcessLayouts ==
    /\ dxf_pc = "layouts"
    /\ \E done \in {process_layouts(doc.layouts)} :
          /\ doc' = [doc EXCEPT !.layouts = done.layouts]
          /\ dxf_pc' = IF done.raised THEN "except" ELSE "save"
    /\ UNCHANGED <<saved, dxf_result, DxfSettings, pvars, cvars, uvars>>

\* doc.saveas(output_path); return True
SaveAs ==
    /\ dxf_pc = "save"
    /\ saved' = Append(saved, doc)
    /\ dxf_result' = "True"
    /\ dxf_pc' = "returned"
    /\ UNCHANGED <<doc, DxfSettings, pvars, cvars, uvars>>

\* except Exception as e: logging.error(...); return False
ReturnFalse ==
    /\ dxf_pc = "except"
    /\ dxf_result' = "False"
    /\ dxf_pc' = "returned"
    /\ UNCHANGED <<doc, saved, DxfSettings, pvars, cvars, uvars>>

NextDxf ==
    \/ ReadFile
    \/ ProcessLayerTable
    \/ ProcessBlockDefinitions
    \/ ProcessModelspace
    \/ ProcessLayouts
    \/ SaveAs
    \/ ReturnFalse

SpecDxf == InitDxf /\ [][NextDxf]_vars

\* ------------------------------------------------------------------------
\* Properties of process_dxf_file
\* ------------------------------------------------------------------------
\* the entities that the traversal is to visit: those of every block whose
\* name does not start with '*', of model space and of every other layout
VisitedEntities(d) ==
    UNION {Range(d.blocks[i].entities) :
              i \in {k \in DOMAIN d.blocks : ~IsSystemBlock(d.blocks[k])}}
        \cup UNION {Range(d.layouts[i].entities) : i \in DOMAIN d.layouts}

AllEntities(d) ==
    UNION {Range(d.blocks[i].entities) : i \in DOMAIN d.blocks}
        \cup UNION {Range(d.layouts[i].entities) : i \in DOMAIN d.layouts}

\* the processing of some entity of the document has raised
SomeEntityRaised == \E e \in AllEntities(doc) : e.trace \in {"warned", "raised"}

Returned(value) == dxf_pc = "returned" /\ dxf_result = value

C18_EntityFailureContained ==
    dxf_pc = "returned" /\ SomeEntityRaised =>
        /\ dxf_result = "True"
        /\ Len(saved) = 1
        /\ \A e \in VisitedEntities(doc) : e.fault = "none" => e.trace = "annotated"

\* ------------------------------------------------------------------------
\* Properties of the matching within one rule table
\* ------------------------------------------------------------------------
\* the rules of a table, by position, one of whose strings equals the
\* whole normalised text after normalisation
EqualRulesOf(table, normalized) ==
    {i \in DOMAIN table :
        \E j \in DOMAIN table[i].strings :
            normalize_whitespace(table[i].strings[j]) = normalized}

\* the table that decides the colour: -cc when it holds the text, else -tc
DecidingTable ==
    IF EqualRulesOf(char_color_mapping, Normalized) # {}
    THEN char_color_mapping ELSE text_color_mapping

EqualRules == EqualRulesOf(DecidingTable, Normalized)

\* the colour has the palette index of a name in small letters, or is the
\* default when the palette does not have the name
HasIndexOf(lower_name) ==
    IF lower_name \in DOMAIN color_mapping
    THEN text_color = color_mapping[lower_name]
    ELSE text_color = line_color

\* what the sentence requires of a resolved text, given the table that
\* decides and its rules that equal the text
ExactFirstMatchIn(table, equal) ==
    IF equal = {} THEN text_color = line_color
    ELSE \E i \in equal :
            /\ \A k \in equal : i <= k
            /\ \E lower_name \in {Lower(table[i].color)} : HasIndexOf(lower_name)

\* the same for a text with a given normalised form: the -cc table decides
\* when it holds the text, else the -tc table
ExactFirstMatchFor(normalized) ==
    \E cc \in {EqualRulesOf(char_color_mapping, normalized)} :
        IF cc # {} THEN ExactFirstMatchIn(char_color_mapping, cc)
        ELSE \E tc \in {EqualRulesOf(text_color_mapping, normalized)} :
                ExactFirstMatchIn(text_color_mapping, tc)

\* C21 as stated: a text gets the colour of a rule only when a string of the
\* rule equals the whole normalised text, the colour name is looked up without
\* regard to case, and of several rules of one table that hold the text the
\* one declared first gives the colour.
C21_ExactFirstMatch ==
    color_pc = "resolved" => \E n \in {Normalized} : ExactFirstMatchFor(n)

\* C21, amended: the same for every text whose normalised form is not empty.
C21_ExactFirstMatchNonEmpty ==
    color_pc = "resolved" =>
        \E n \in {Normalized} : n # <<>> => ExactFirstMatchFor(n)

\* the text " x" is held by the rules Blue and red of the -cc table, Blue
\* declared first, and was resolved to 5; the text "x y", which only
\* contains "x", is not held by them
C21_Witness ==
    /\ color_pc = "resolved"
    /\ text_content = <<" ", "x">>
    /\ Len(char_color_mapping) = 2
    /\ char_color_mapping[1].color = <<"B", "l", "u", "e">>
    /\ char_color_mapping[2].color = <<"r", "e", "d">>
    /\ EqualRules = {1, 2}
    /\ text_color = 5
    /\ line_color = 7
    /\ normalize_whitespace(<<"x", " ", "y">>) \notin
           {normalize_whitespace(char_color_mapping[1].strings[j]) :
               j \in DOMAIN char_color_mapping[1].strings}

\* ------------------------------------------------------------------------
\* Properties of the colour of text entities
\* ------------------------------------------------------------------------
\* the text content of a text entity itself: its text attribute, cleaned of
\* control codes when the entity is an MTEXT
OwnText(e) ==
    IF e.dxftype = "MTEXT" THEN clean_mtext_content(TextOf(e)) ELSE TextOf(e)

\* C22 as stated: a TEXT, MTEXT, ATTRIB or ATTDEF that has been annotated has
\* as colour what the resolver returns for the entity's own text content.
C22_TextColorFromOwnText ==
    /\ entity_pc = "done" /\ entity.trace = "annotated"
    /\ entity.dxftype \in TextTypes /\ "color" \in entity.has
    => entity.color = get_text_color_for_entity(OwnText(entity_before))

\* ------------------------------------------------------------------------
\* Properties of INSERT, HATCH and the other entities
\* ------------------------------------------------------------------------
\* what a line entity with the attributes of e gets
AsLine(e) == process_line_entity([e EXCEPT !.trace = "handling"])

\* C23 as stated: an annotated INSERT, HATCH or entity of a kind without a
\* handler of its own has the configured line colour and, when it has a
\* lineweight, the lineweight that a line entity gets.
C23_PlainEntitiesLikeLines ==
    /\ entity_pc = "done" /\ entity.trace = "annotated"
    /\ entity.dxftype \notin LineTypes \cup TextTypes \cup DimensionTypes
    => /\ "color" \in entity.has => entity.color = line_color
       /\ "lineweight" \in entity.has =>
              entity.lineweight = AsLine(entity_before).lineweight

\* ------------------------------------------------------------------------
\* Properties of the lineweight
\* ------------------------------------------------------------------------
\* a width in thousandths of a millimetre as hundredths, rounded to the
\* nearest whole number, a half upwards
RoundedHundredths(width) == (width + 5) \div 10

\* C24 as stated: an annotated line-like or dimension-like entity with a
\* lineweight has as lineweight the configured width times 100, rounded to
\* the nearest whole number.
C24_LineweightRounded ==
    /\ entity_pc = "done" /\ entity.trace = "annotated"
    /\ entity.dxftype \in LineTypes \cup DimensionTypes
    /\ "lineweight" \in entity.has
    => entity.lineweight = RoundedHundredths(line_width_mm)

\* ------------------------------------------------------------------------
\* Properties of the traversal order and of the system blocks
\* ------------------------------------------------------------------------
\* the entities of a container are as they were read from the file
AsRead(container) == Range(container.entities) \subseteq DocEntities

\* each entity of a container has been handed to _process_entity once
VisitedOnce(container) == \A e \in Range(container.entities) : e.visits = 1

LayersRecoloured == \A i \in DOMAIN doc.layers : doc.layers[i] = line_color

\* the passes that have been made when the run stands at a position
PassesMade ==
    IF dxf_pc = "blocks" THEN {"layers"}
    ELSE IF dxf_pc = "modelspace" THEN {"layers", "blocks"}
    ELSE IF dxf_pc = "layouts" THEN {"layers", "blocks", "modelspace"}
    ELSE IF dxf_pc = "save" THEN {"layers", "blocks", "modelspace", "layouts"}
    ELSE {}

\* C25 as stated: after the pass over the block definitions the entities of
\* each block whose name starts with '*' are as they were read and each
\* entity of each other block has been processed once; the layers are
\* recoloured before the blocks are processed, the blocks before model
\* space, model space before the paper layouts.
C25_SystemBlocksSkippedInOrder ==
    dxf_pc \in {"blocks", "modelspace", "layouts", "save"} =>
        /\ LayersRecoloured
        /\ \A i \in DOMAIN doc.blocks :
              IF IsSystemBlock(doc.blocks[i]) \/ "blocks" \notin PassesMade
              THEN AsRead(doc.blocks[i])
              ELSE VisitedOnce(doc.blocks[i])
        /\ IF "modelspace" \in PassesMade
           THEN VisitedOnce(doc.layouts[1]) ELSE AsRead(doc.layouts[1])
        /\ IF "layouts" \in PassesMade
           THEN VisitedOnce(doc.layouts[2]) ELSE AsRead(doc.layouts[2])

\* ------------------------------------------------------------------------
\* Properties of _clean_mtext_content
\* ------------------------------------------------------------------------
\* the positions of the paragraph breaks of a text: a backslash and a P
ParagraphBreaks(t) ==
    {k \in DOMAIN t : k < Len(t) /\ t[k] = Backslash /\ t[k + 1] = "P"}

\* C26 as stated: the cleaned text of an MTEXT that has been processed holds
\* as many paragraph breaks as the text of the entity.
C26_ParagraphBreaksKept ==
    /\ entity_pc = "done"
    /\ entity_before.dxftype = "MTEXT" /\ "text" \in entity_before.has
    => Cardinality(ParagraphBreaks(clean_mtext_content(entity_before.text)))
           = Cardinality(ParagraphBreaks(entity_before.text))

\* ------------------------------------------------------------------------
\* Properties of the results of process_file_pairs
\* ------------------------------------------------------------------------
\* C27 as stated: in every result recorded as success the path of the
\* annotated revision A differs from the path of the annotated revision B.
C27_OutputsDistinct ==
    \A k \in DOMAIN results :
        results[k].success => results[k].file_a_output # results[k].file_b_output

\* ------------------------------------------------------------------------
\* The hand-over of the label lists: diff_label_processor.py writes the
\* label files, core/processor.py names them on the command lines of the two
\* annotation runs, parse_text_color_args of dxf_processor.py reads them
\* ------------------------------------------------------------------------
Newline == "\n"

\* write_label_file: for label in labels: f.write(f"{label}\n")
RECURSIVE FileContent(_)
FileContent(labels) ==
    IF labels = <<>> THEN <<>>
    ELSE Head(labels) \o <<Newline>> \o FileContent(Tail(labels))

\* for line in f: the lines of a text file, without their line ends (which
\* line.strip() removes)
RECURSIVE FileLines(_)
FileLines(content) ==
    IF content = <<>> THEN <<>>
    ELSE IF IndexesOf(content, Newline) = {} THEN <<content>>
    ELSE <<SubSeq(content, 1, Least(IndexesOf(content, Newline)) - 1)>>
             \o FileLines(SubSeq(content, Least(IndexesOf(content, Newline)) + 1,
                                 Len(content)))

QuoteChars == {"\"", "'"}

\* (line.startswith('"') and line.endswith('"')) or (... "'" ...)
IsQuoted(line) == line # <<>> /\ line[1] \in QuoteChars /\ line[Len(line)] = line[1]

\* the loop over the lines of a rule file: blank lines and lines that start
\* with '#' are skipped, a quoted line loses its quotes
RECURSIVE ReadStringList(_)
ReadStringList(lines) ==
    IF lines = <<>> THEN <<>>
    ELSE IF Strip(Head(lines)) = <<>> \/ Head(Strip(Head(lines))) = "#"
    THEN ReadStringList(Tail(lines))
    ELSE IF IsQuoted(Strip(Head(lines)))
    THEN <<SubSeq(Strip(Head(lines)), 2, Len(Strip(Head(lines))) - 1)>>
             \o ReadStringList(Tail(lines))
    ELSE <<Strip(Head(lines))>> \o ReadStringList(Tail(lines))

\* the file that a label file path names, as its content
LabelFile(kind) ==
    FileContent(label_files[CHOOSE i \in DOMAIN label_files :
                                label_files[i].kind = kind].labels)

\* color_mapping[color] = string_list, a later rule of a colour replacing
\* an earlier one
SetRule(mapping, color, strings) ==
    IF \E i \in DOMAIN mapping : mapping[i].color = color
    THEN [i \in DOMAIN mapping |->
             IF mapping[i].color = color
             THEN [color |-> color, strings |-> strings] ELSE mapping[i]]
    ELSE Append(mapping, [color |-> color, strings |-> strings])

\* parse_text_color_args for -tc color:file arguments: a file without rule
\* strings adds no rule
RECURSIVE parse_text_color_args(_, _)
parse_text_color_args(tc_args, mapping) ==
    IF tc_args = <<>> THEN mapping
    ELSE IF ReadStringList(FileLines(LabelFile(Head(tc_args).file))) = <<>>
    THEN parse_text_color_args(Tail(tc_args), mapping)
    ELSE parse_text_color_args(Tail(tc_args),
             SetRule(mapping, Head(tc_args).color,
                     ReadStringList(FileLines(LabelFile(Head(tc_args).file)))))

Magenta == <<"m", "a", "g", "e", "n", "t", "a">>
Yellow == <<"y", "e", "l", "l", "o", "w">>
Cyan == <<"c", "y", "a", "n">>

\* _run_dxf_processor: the -tc arguments of cmd_a and of cmd_b (the label
\* files exist once diff_label_processor.py has ended with exit code 0)
TcArgsA == <<[color |-> Magenta, file |-> "deleted"],
             [color |-> Yellow, file |-> "modified_a"]>>
TcArgsB == <<[color |-> Cyan, file |-> "added"],
             [color |-> Yellow, file |-> "modified_b"]>>

\* '-cc', 'red:"<U+2606>"': the white star, written here as "*"
StarRule == <<[color |-> <<"r", "e", "d">>, strings |-> << <<"*">> >>]>>

\* ---- tables of the hand-over ---------------------------------------------
HandoverLabels == {<<"R", "1">>, <<"R", " ", "1">>, <<"#", "1">>, <<"'", "R", "'">>}

HandoverRows == {<<l, <<"1">>, <<"1">>, o, d>> :
                    l \in HandoverLabels,
                    o \in {AOnlyText, BOnlyText, DifferentText},
                    d \in {<<"-", "1">>, <<"2">>}}

HandoverTables == {<<HeaderRow>> \o rows : rows \in SeqsUpTo(HandoverRows, MaxRows)}

InitHandover ==
    /\ UiIdle
    /\ csv_table \in HandoverTables
    /\ csv_pc = "ready"
    /\ deleted_labels = <<>>
    /\ added_labels = <<>>
    /\ modified_a_labels = <<>>
    /\ modified_b_labels = <<>>
    /\ label_files = <<>>
    /\ PipelineIdle
    /\ AnnotatorIdle

\* dxf_processor.py main() of revision A's run:
\* text_color_mapping = parse_text_color_args(args.text_color), ...
ParseArgsA ==
    /\ csv_pc = "written" /\ dxf_pc = "idle"
    /\ text_color_mapping' = parse_text_color_args(TcArgsA, <<>>)
    /\ char_color_mapping' = StarRule
    /\ dxf_pc' = "main_a"
    /\ UNCHANGED <<line_width_mm, line_color, min_font_size_mm, text_content,
                   text_color, color_pc, entity_before, entity, entity_pc, doc,
                   saved, dxf_result>>
    /\ UNCHANGED <<pvars, cvars, uvars>>

\* the same of revision B's run, which follows revision A's
ParseArgsB ==
    /\ csv_pc = "written" /\ dxf_pc = "main_a"
    /\ text_color_mapping' = parse_text_color_args(TcArgsB, <<>>)
    /\ char_color_mapping' = StarRule
    /\ dxf_pc' = "main_b"
    /\ UNCHANGED <<line_width_mm, line_color, min_font_size_mm, text_content,
                   text_color, color_pc, entity_before, entity, entity_pc, doc,
                   saved, dxf_result>>
    /\ UNCHANGED <<pvars, cvars, uvars>>

NextHandover ==
    \/ ProcessCsvFile
    \/ WriteLabelFiles
    \/ ParseArgsA
    \/ ParseArgsB

SpecHandover == InitHandover /\ [][NextHandover]_vars

\* the rule strings that a run has loaded under a colour
StringsUnder(color) ==
    IF \E i \in DOMAIN text_color_mapping : text_color_mapping[i].color = color
    THEN text_color_mapping[CHOOSE i \in DOMAIN text_color_mapping :
                                text_color_mapping[i].color = color].strings
    ELSE <<>>

LoadedColors == {text_color_mapping[i].color : i \in DOMAIN text_color_mapping}

\* C28 as stated: revision A's run has loaded the deleted labels under
\* magenta and the modified_a labels under yellow, revision B's run the added
\* labels under cyan and the modified_b labels under yellow: the same
\* strings in the same order, and no other rule.
C28_LabelsSurviveHandover ==
    /\ dxf_pc = "main_a" =>
          /\ StringsUnder(Magenta) = deleted_labels
          /\ StringsUnder(Yellow) = modified_a_labels
          /\ LoadedColors \subseteq {Magenta, Yellow}
    /\ dxf_pc = "main_b" =>
          /\ StringsUnder(Cyan) = added_labels
          /\ StringsUnder(Yellow) = modified_b_labels
          /\ LoadedColors \subseteq {Cyan, Yellow}

\* ------------------------------------------------------------------------
\* Properties of the recorded results
\* ------------------------------------------------------------------------
\* an optional field of a ProcessingResult is None
Unset(value) == value = <<>>

OutputFields == {"file_a_output", "file_b_output", "output_dir",
                 "original_a_name", "original_b_name"}

\* C29: each recorded result is well-formed.  A result with success=True
\* stands for a pair whose classification run and two annotation runs ended
\* with exit code 0 and without timeout, has its output paths, its output
\* directory and both original names, and no error message; a result with
\* success=False has an error message and none of the outputs;
\* successful_pairs and failed_pairs split the results in two, so that
\* success_count and the number of failed pairs add up to total_count.
C29_ResultsWellFormed ==
    /\ \A k \in DOMAIN results :
          IF results[k].success
          THEN /\ AllStagesOk(k)
               /\ \A f \in OutputFields : ~Unset(results[k][f])
               /\ Unset(results[k].error_message)
          ELSE /\ ~Unset(results[k].error_message)
               /\ \A f \in OutputFields \ {"original_a_name", "original_b_name"} :
                     Unset(results[k][f])
    /\ successful_pairs(results) \cap failed_pairs(results) = {}
    /\ successful_pairs(results) \cup failed_pairs(results) = DOMAIN results
    /\ success_count(results) + Cardinality(failed_pairs(results)) = total_count(results)

\* process_file_pairs has handed back one successful and one failed pair
C29_Witness ==
    /\ pc = "returned"
    /\ returned = results
    /\ success_count(results) = 1
    /\ Cardinality(failed_pairs(results)) = 1
    /\ \E k \in failed_pairs(results) : StageFailed(k)

\* ------------------------------------------------------------------------
\* ui/components.py, core/models.py, app.py: one browser session.  Streamlit
\* runs the script app() from top to bottom after every interaction of the
\* user with a widget; st.rerun() ends the run and starts the next one.
\* ------------------------------------------------------------------------
MaxRuns == 3

PROCESSING_STARTED == "processing_started"
PROCESSING_COMPLETED == "processing_completed"
PROCESSING_RESULTS == "processing_results"

\* st.session_state.get(key, default)
SessionGet(key, default) ==
    IF key \in DOMAIN session_state THEN session_state[key] ELSE default

\* st.session_state[key] = value
SessionSet(state, key, value) ==
    [k \in DOMAIN state \cup {key} |-> IF k = key THEN value ELSE state[k]]

get_processing_started == SessionGet(PROCESSING_STARTED, FALSE)
get_processing_completed == SessionGet(PROCESSING_COMPLETED, FALSE)
\* the ProcessingResults stored, as a set: {} is None
get_processing_results == SessionGet(PROCESSING_RESULTS, {})

\* SessionState.clear_all: the keys are deleted (WORKING_DIR is never set)
clear_all == EmptySession

InitUi ==
    /\ session_state = EmptySession
    /\ file_pairs_ready \in 0..MaxPairs
    /\ ui_pc = "script"
    /\ pipeline_runs = 0
    /\ PipelineIdle
    /\ CsvIdle
    /\ AnnotatorIdle

\* the user uploads or removes a file, or presses a download button: the
\* widget changes and the script runs again
Interact ==
    /\ ui_pc = "idle"
    /\ file_pairs_ready' \in 0..MaxPairs
    /\ ui_pc' = "script"
    /\ UNCHANGED <<session_state, pipeline_runs>>
    /\ UNCHANGED <<pvars, cvars, avars>>

\* the start button is on the page when there are pairs and processing has
\* not started (lines 63-76); the script run of a click on it:
\* SessionState.set_processing_started(True); st.rerun()
ClickStart ==
    /\ ui_pc = "idle"
    /\ file_pairs_ready > 0 /\ ~get_processing_started
    /\ session_state' = SessionSet(session_state, PROCESSING_STARTED, TRUE)
    /\ pipeline_runs' = 0
    /\ ui_pc' = "script"
    /\ UNCHANGED file_pairs_ready
    /\ UNCHANGED <<pvars, cvars, avars>>

\* DownloadComponent.render is called when processing is completed and has
\* results (app.py:62-65), and shows the reset button when some pair
\* succeeded; the script run of a click on it: clear_all(); st.rerun()
ClickReset ==
    /\ ui_pc = "idle"
    /\ get_processing_completed /\ get_processing_results # {}
    /\ \E r \in get_processing_results : r.some_success
    /\ session_state' = clear_all
    /\ ui_pc' = "script"
    /\ UNCHANGED <<file_pairs_ready, pipeline_runs>>
    /\ UNCHANGED <<pvars, cvars, avars>>

\* ProcessingComponent.render up to the call of the pipeline: without pairs
\* it returns, without processing_started it shows the button, with it the
\* pipeline is called (lines 63-89)
RenderProcessing ==
    /\ ui_pc = "script"
    /\ IF file_pairs_ready > 0 /\ get_processing_started
       THEN /\ pipeline_runs < MaxRuns
            /\ pipeline_runs' = pipeline_runs + 1
            /\ ui_pc' = "pipeline"
       ELSE /\ ui_pc' = "idle"
            /\ UNCHANGED pipeline_runs
    /\ UNCHANGED <<session_state, file_pairs_ready>>
    /\ UNCHANGED <<pvars, cvars, avars>>

\* results = processor_callback(...); set_processing_results(results);
\* set_processing_completed(True); the rest of the script draws the page.
\* The results stored tell which call made them and whether
\* successful_pairs is not empty.
PipelineReturns ==
    /\ ui_pc = "pipeline"
    /\ \E some_success \in BOOLEAN :
          session_state' =
              SessionSet(SessionSet(session_state, PROCESSING_RESULTS,
                                    {[run |-> pipeline_runs,
                                      some_success |-> some_success]}),
                         PROCESSING_COMPLETED, TRUE)
    /\ ui_pc' = "idle"
    /\ UNCHANGED <<file_pairs_ready, pipeline_runs>>
    /\ UNCHANGED <<pvars, cvars, avars>>

\* except Exception: st.error(...); set_processing_started(False); st.stop()
PipelineRaises ==
    /\ ui_pc = "pipeline"
    /\ session_state' = SessionSet(session_state, PROCESSING_STARTED, FALSE)
    /\ ui_pc' = "idle"
    /\ UNCHANGED <<file_pairs_ready, pipeline_runs>>
    /\ UNCHANGED <<pvars, cvars, avars>>

NextUi ==
    \/ Interact
    \/ ClickStart
    \/ ClickReset
    \/ RenderProcessing
    \/ PipelineReturns
    \/ PipelineRaises

SpecUi == InitUi /\ [][NextUi]_vars

\* C30 as stated: after one click on the start button the pipeline is
\* called at most once, however often the page is run again.
C30_OneRunPerClick == pipeline_runs <= 1

====
